---- MODULE Spec2Model ----
(***************************************************************************)
(* Plan/Step execution engine of sunbeam (snap-openstack).                 *)
(*                                                                         *)
(* One command runs at a time.  A command builds its plans (ordered lists  *)
(* of steps) and hands each to run_plan; run_plan calls is_skip and run of *)
(* every step in list order; a deploy/remove step provisions with          *)
(* Terraform and then waits on the Juju controller, some of them with a    *)
(* background status task on the event loop.  Commands with preflight      *)
(* checks run them first.  The deployment registry (DeploymentsConfig) and *)
(* its file are a second system, SpecRegistry.                             *)
(***************************************************************************)
EXTENDS Integers, Sequences, FiniteSets, TLC

\* ------------------------------------------------------------------ bounds
\* ticks of the wait's clock before its timeout expires
MaxTimeout == 2
\* largest number of tracked applications
MaxApps == 2
\* largest number of machines in the model
MaxMachines == 2
\* entries an unbounded queue (maxsize 0) is allowed to hold in the model
QueueCap == 2
\* times the operator runs the command (the first run and its re-runs)
MaxRuns == 2
\* longest list of deployments of the registry
MaxDeployments == 2
\* largest revision of a deployment's content (update_deployment)
MaxRev == 1

VARIABLES
    cmd,           \* the command being executed
    userManifest,  \* self.user_manifest is set
    nApps,         \* len(apps) of the step that tracks applications
    appExists,     \* tls-operator exists in the model before the first run
    deployed,      \* deploy calls made for tls-operator so far
    confirmed,     \* a wait saw tls-operator reach the desired status
    storedConfig,  \* tfvars stored in the cluster database for the consul client
    openConns,     \* model connections the certificates step got and has not disconnected
    deployCall,    \* arguments of the last deploy call of the certificates step
    runNo,         \* number of the current run of the command
    checkLog,      \* preflight checks evaluated so far, with their outcome
    controllerOpened, \* get_connected_controller() was called
    nMachines,     \* machines in the model (certificates step)
    pc,            \* position of the command / of run_plan
    phase,         \* index of the plan the command is running
    idx,           \* index of the step run_plan is at
    stepPc,        \* position inside the running step's run()
    applyCalls,    \* provisioning calls made by the running step's run()
    waitCalls,     \* wait calls made by the running step's run()
    elapsed,       \* clock of the wait in progress
    remoteReady,   \* the remote reached the state the wait is waiting for
    poller,        \* state of the background task
    qlen,          \* entries in the progress queue
    stepResult,    \* Result returned by the last run()
    raised,        \* exception a collaborator raised inside the last run()
    escaped,       \* exception that left run() / run_plan, if any
    trace,         \* is_skip / run / return events, in order
    exitCode,      \* process exit code once the command has ended
    exitMessage,   \* message of the failure reported to the operator
    echoed,        \* final message printed by the command
    regDeps,       \* DeploymentsConfig.deployments (in memory)
    regActive,     \* DeploymentsConfig.active (in memory)
    fileDoc,       \* what the registry file at its path holds
    tmpDoc,        \* what the temporary file of write() holds
    oldDoc,        \* what the registry file held when write() was called
    regPc,         \* position of the registry operation in progress
    regOp,         \* the registry operation called last
    regOut,        \* what that operation returned or raised
    regCall,       \* that operation's argument, and the registry it was called on
    spaces,        \* deployment.get_space: the space of each network, if any
    manifest,      \* the feature's part of the manifest
    consulOp,      \* the function of the instance-recovery feature called last
    consulOut      \* what that function returned or raised

vars == <<cmd, userManifest, nApps, appExists, nMachines, deployed, confirmed,
          storedConfig, openConns, deployCall,
          runNo, checkLog, controllerOpened, pc, phase, idx,
          stepPc, applyCalls, waitCalls, elapsed, remoteReady, poller, qlen,
          stepResult, raised, escaped, trace, exitCode, exitMessage, echoed,
          regDeps, regActive, fileDoc, tmpDoc, oldDoc, regPc, regOp, regOut,
          regCall, spaces, manifest, consulOp, consulOut>>

\* ------------------------------------------------------------ Result values
Result(t, m) == [type |-> t, message |-> m]
NoResult == Result("NONE", "")
COMPLETED == Result("COMPLETED", "")
SKIPPED == Result("SKIPPED", "")

Exc(k, m) == [exc |-> k, msg |-> m]
NoExc == Exc("none", "")

\* ------------------------------------------------- external collaborators
\* Terraform helper: apply / destroy return or raise TerraformException.
TerraformOutcomes ==
    {NoExc, Exc("TerraformException", "apply failed..."),
            Exc("TerraformException", "destroy failed...")}

\* Juju helper waits: each raises a timeout exception or a wait exception.
TimeoutExc == Exc("TimeoutException", "timed out")
WaitExc == Exc("JujuWaitException", "unit in error state")

\* A step whose class is not part of these sources: its run() returns a Result.
OpaqueRunOutcomes == {COMPLETED, Result("FAILED", "step failed")}
OpaqueIsSkipOutcomes == {COMPLETED, SKIPPED}

\* ------------------------------------------------------------------- steps
OpaqueStep(n, a) ==
    [name |-> n, arg |-> a, kind |-> "opaque", provisionCatches |-> {},
     task |-> FALSE, queue |-> FALSE, waitCatches |-> {}]

TerraformInitStep(h) == OpaqueStep("TerraformInitStep", h)
AddManifestStep == OpaqueStep("AddManifestStep", "")
EnableOpenStackApplicationStep == OpaqueStep("EnableOpenStackApplicationStep", "")
DisableOpenStackApplicationStep == OpaqueStep("DisableOpenStackApplicationStep", "")
ReapplyHypervisorTerraformPlanStep == OpaqueStep("ReapplyHypervisorTerraformPlanStep", "")
RemoveSaasApplicationsStep == OpaqueStep("RemoveSaasApplicationsStep", "")
PatchCosLoadBalancerStep == OpaqueStep("PatchCosLoadBalancerStep", "")

\* DeployConsulClientStep.run without the except clause around its wait.
DeployConsulClientStepUncaughtWait ==
    [name |-> "DeployConsulClientStep", arg |-> "", kind |-> "deploy",
     provisionCatches |-> {"TerraformException"},
     task |-> TRUE, queue |-> TRUE, waitCatches |-> {}]

DeployConsulClientStep ==
    [name |-> "DeployConsulClientStep", arg |-> "", kind |-> "deploy",
     provisionCatches |-> {"TerraformException"},
     task |-> TRUE, queue |-> TRUE,
     waitCatches |-> {"JujuWaitException", "TimeoutException"}]

RemoveConsulClientStep ==
    [name |-> "RemoveConsulClientStep", arg |-> "", kind |-> "remove",
     provisionCatches |-> {"TerraformException"},
     task |-> FALSE, queue |-> FALSE,
     waitCatches |-> {"TimeoutException"}]

\* Mutant: run() has no except clause around the Terraform apply.
DeployObservabilityStackStepUncaught ==
    [name |-> "DeployObservabilityStackStep", arg |-> "", kind |-> "deploy",
     provisionCatches |-> {},
     task |-> TRUE, queue |-> FALSE,
     waitCatches |-> {"JujuWaitException", "TimeoutException"}]

DeployObservabilityStackStep ==
    [name |-> "DeployObservabilityStackStep", arg |-> "", kind |-> "deploy",
     provisionCatches |-> {"TerraformException"},
     task |-> TRUE, queue |-> FALSE,
     waitCatches |-> {"JujuWaitException", "TimeoutException"}]

UpdateObservabilityModelConfigStep ==
    [name |-> "UpdateObservabilityModelConfigStep", arg |-> "", kind |-> "apply_only",
     provisionCatches |-> {"TerraformException"},
     task |-> FALSE, queue |-> FALSE, waitCatches |-> {}]

DeployGrafanaAgentStep ==
    [name |-> "DeployGrafanaAgentStep", arg |-> "", kind |-> "deploy",
     provisionCatches |-> {"TerraformException"},
     task |-> FALSE, queue |-> FALSE,
     waitCatches |-> {"JujuWaitException", "TimeoutException"}]

\* Mutant: the except clause of the wait names the wrong exception.
RemoveObservabilityStackStepWrongExcept ==
    [name |-> "RemoveObservabilityStackStep", arg |-> "", kind |-> "remove",
     provisionCatches |-> {"TerraformException"},
     task |-> FALSE, queue |-> FALSE,
     waitCatches |-> {"JujuWaitException"}]

RemoveObservabilityStackStep ==
    [name |-> "RemoveObservabilityStackStep", arg |-> "", kind |-> "remove",
     provisionCatches |-> {"TerraformException"},
     task |-> FALSE, queue |-> FALSE,
     waitCatches |-> {"TimeoutException"}]

RemoveGrafanaAgentStep ==
    [name |-> "RemoveGrafanaAgentStep", arg |-> "", kind |-> "remove",
     provisionCatches |-> {"TerraformException"},
     task |-> FALSE, queue |-> FALSE,
     waitCatches |-> {"TimeoutException"}]

DeployCertificatesProviderApplicationStep ==
    [name |-> "DeployCertificatesProviderApplicationStep", arg |-> "", kind |-> "cert",
     provisionCatches |-> {},
     task |-> FALSE, queue |-> FALSE,
     waitCatches |-> {"JujuWaitException", "TimeoutException"}]

\* Mutant: the polarity of is_skip is taken the intuitive way round.
CertificatesIsSkipInverted(exists) == IF exists THEN COMPLETED ELSE SKIPPED

\* Mutant: is_skip tells run_plan to proceed whatever the lookup found.
CertificatesIsSkipAlwaysProceed(exists) == COMPLETED

\* DeployCertificatesProviderApplicationStep.is_skip: get_application found
\* the application (SKIPPED) or raised ApplicationNotFoundException (COMPLETED).
CertificatesIsSkip(exists) == IF exists THEN SKIPPED ELSE COMPLETED

\* Failures of the lookups made by is_skip: get_model fails, or
\* get_application fails with something else than ApplicationNotFoundException.
GetModelError == Exc("JujuException", "model not reachable")
GetApplicationError == Exc("JujuException", "application lookup failed")
CertificatesLookupErrors == {GetModelError, GetApplicationError}

\* Mutant: is_skip catches every exception of the lookup and skips the step.
CertificatesIsSkipSwallowsError(e) == SKIPPED

\* is_skip names only ApplicationNotFoundException in its except clause and
\* calls get_model outside the try: every other exception leaves is_skip.
CertificatesIsSkipOnError(e) == Result("EXCEPTION", e.msg)

\* BaseStep.is_skip, inherited by the steps that do not define it: proceed.
DefaultIsSkip == COMPLETED

\* Mutant: is_skip deploys the application it did not find.
CertificatesIsSkipCallsDeploying ==
    <<"get_model", "get_application", "deploy", "disconnect">>

\* The JujuHelper calls of certificates is_skip, in order: get_model, then
\* get_application in a try whose finally disconnects.
CertificatesIsSkipCalls == <<"get_model", "get_application", "disconnect">>

\* The calls is_skip got to when the lookup e failed: get_model is outside
\* the try, the finally runs after a failed get_application.
CallsUntil(calls, e) ==
    IF e = GetModelError THEN SubSeq(calls, 1, 1) ELSE calls

\* What a JujuHelper call does to the number of deploys in the model.
JujuCallOnModel(call, n) ==
    CASE call = "deploy" -> n + 1
      [] call = "remove_application" -> 0
      [] OTHER -> n

RECURSIVE AfterCalls(_, _)
AfterCalls(calls, n) ==
    IF calls = <<>> THEN n
    ELSE AfterCalls(Tail(calls), JujuCallOnModel(Head(calls), n))

IsSkipCalls(s) == IF s.kind = "cert" THEN CertificatesIsSkipCalls ELSE <<>>

\* get_machines fails in run().
GetMachinesError == Exc("JujuException", "machines lookup failed")
CertificatesRunErrors == {GetModelError, GetMachinesError}

\* The JujuHelper calls run() makes before it looks at the machines.
CertificatesRunCalls == <<"get_model", "get_machines", "disconnect">>

\* The calls run() got to when the lookup e failed: none of the three is
\* inside a try.
RunCallsUntil(calls, e) ==
    IF e = GetModelError THEN SubSeq(calls, 1, 1)
    ELSE IF e = GetMachinesError THEN SubSeq(calls, 1, 2)
    ELSE calls

\* The call that raised e.
FailedCall(e) ==
    CASE e = GetModelError -> "get_model"
      [] e = GetApplicationError -> "get_application"
      [] e = GetMachinesError -> "get_machines"
      [] OTHER -> ""

\* The connections open after the calls: a get_model that returned opened
\* one, a disconnect closed one.
RECURSIVE OpenAfter(_, _, _)
OpenAfter(calls, failed, n) ==
    IF calls = <<>> THEN n
    ELSE OpenAfter(Tail(calls), failed,
                   CASE Head(calls) = "get_model" /\ failed # "get_model" -> n + 1
                     [] Head(calls) = "disconnect" -> n - 1
                     [] OTHER -> n)

\* list(clusterd_machines.keys()): the machines of the model, in the order
\* get_machines gives them; machine i - 1 is at position i.
MachineIds(n) == [i \in 1..n |-> i - 1]

\* Mutant: the slice keeps the last machine.
MachinesSliceLast(ms) == IF Len(ms) = 0 THEN <<>> ELSE SubSeq(ms, Len(ms), Len(ms))

\* machines[:1]
MachinesSlice(ms) == IF Len(ms) = 0 THEN <<>> ELSE SubSeq(ms, 1, 1)

NoDeployCall == [units |-> 0, to |-> <<>>]

\* jhelper.deploy(APPLICATION, CHARM, self.model, 1, ..., to=machines, ...)
DeployCall(ms) == [units |-> 1, to |-> MachinesSlice(ms)]

\* is_skip of a step: the Results it can return.
IsSkipOutcomes(s, exists) ==
    IF s.name = "TerraformInitStep" THEN {DefaultIsSkip}
    ELSE IF s.kind = "opaque" THEN OpaqueIsSkipOutcomes
    ELSE IF s.kind = "cert" THEN {CertificatesIsSkip(exists)}
    ELSE {DefaultIsSkip}

\* Mutant: the Result carries a fixed text instead of the exception's message.
\* an except clause that ends with the wrong ResultType
FailedResultCompleted(e) == COMPLETED

FailedResultFixedText(e) == Result("FAILED", "Failed to deploy")

\* except ... as e: return Result(ResultType.FAILED, str(e))
FailedResult(e) == Result("FAILED", e.msg)

\* finally: if not task.done(): task.cancel()
\* an except clause around the provisioning call that calls it again
ProvisionHandlerRetry(s, e) ==
    IF e.exc \in s.provisionCatches THEN "retry" ELSE "propagate"

\* try: apply / destroy  except TerraformException as e: return Result(FAILED)
\* an exception no except clause names leaves run()
ProvisionHandler(s, e) ==
    IF e.exc \in s.provisionCatches THEN "return_failed" ELSE "propagate"

FinallyCancel(p) == IF p = "running" THEN "cancelling" ELSE p

\* ---------------------------------------------------------------- commands
Commands == {"ir_enable", "ir_disable", "obs_enable", "obs_disable",
             "obs_update_proxy", "certificates", "juju_login", "openrc"}

\* preflight_checks of the command, in list order
PreflightChecks(c) ==
    CASE c = "juju_login" -> <<"VerifyBootstrappedCheck">>
      [] c = "openrc" -> <<"DaemonGroupCheck", "VerifyBootstrappedCheck">>
      [] OTHER -> <<>>

\* Mutant: openrc builds its JujuHelper before it runs the preflight checks.
ControllerOpenedAtStart(c) ==
    CASE c \in {"ir_enable", "ir_disable", "obs_enable", "obs_disable",
                "openrc"} -> "start"
      [] OTHER -> "never"

\* Where the command calls deployment.get_connected_controller().
ControllerOpenedAt(c) ==
    CASE c \in {"ir_enable", "ir_disable", "obs_enable", "obs_disable"} -> "start"
      [] c = "openrc" -> "after_preflight"
      [] OTHER -> "never"

\* run_preflight_checks after a check ran: a failing check ends the process.
RunPreflightOnCheck(ok) == IF ok THEN "next" ELSE "exit"

InstanceRecoveryEnablePlans(um) ==
    << (IF um THEN <<AddManifestStep>> ELSE <<>>) \o
       << TerraformInitStep("feature"),
          EnableOpenStackApplicationStep,
          TerraformInitStep("consul-client"),
          DeployConsulClientStep >>,
       << TerraformInitStep("hypervisor"),
          ReapplyHypervisorTerraformPlanStep >> >>

InstanceRecoveryDisablePlans ==
    << << TerraformInitStep("hypervisor"),
          TerraformInitStep("consul-client"),
          RemoveConsulClientStep,
          ReapplyHypervisorTerraformPlanStep,
          RemoveSaasApplicationsStep,
          TerraformInitStep("feature"),
          DisableOpenStackApplicationStep >> >>

\* Mutant: grafana-agent-k8s is enabled before the COS stack is deployed.
ObservabilityEnablePlansReordered(um) ==
    << (IF um THEN <<AddManifestStep>> ELSE <<>>),
       << TerraformInitStep("feature"),
          EnableOpenStackApplicationStep >>,
       << TerraformInitStep("cos"),
          DeployObservabilityStackStep,
          PatchCosLoadBalancerStep >>,
       << TerraformInitStep("grafana-agent"),
          DeployGrafanaAgentStep >> >>

\* Mutant: cos_plan is built under the test of the user manifest as well.
ObservabilityEnablePlansManifestOnly(um) ==
    << (IF um THEN <<AddManifestStep>> ELSE <<>>),
       (IF um THEN << TerraformInitStep("cos"),
                      DeployObservabilityStackStep,
                      PatchCosLoadBalancerStep >>
              ELSE <<>>),
       << TerraformInitStep("feature"),
          EnableOpenStackApplicationStep >>,
       << TerraformInitStep("grafana-agent"),
          DeployGrafanaAgentStep >> >>

ObservabilityEnablePlans(um) ==
    << (IF um THEN <<AddManifestStep>> ELSE <<>>),
       << TerraformInitStep("cos"),
          DeployObservabilityStackStep,
          PatchCosLoadBalancerStep >>,
       << TerraformInitStep("feature"),
          EnableOpenStackApplicationStep >>,
       << TerraformInitStep("grafana-agent"),
          DeployGrafanaAgentStep >> >>

\* Mutant: run_disable_plans runs cos_plan first.
ObservabilityDisablePlansCosFirst ==
    << << TerraformInitStep("cos"),
          RemoveObservabilityStackStep >>,
       << TerraformInitStep("feature"),
          DisableOpenStackApplicationStep >>,
       << TerraformInitStep("grafana-agent"),
          RemoveGrafanaAgentStep >> >>

ObservabilityDisablePlans ==
    << << TerraformInitStep("feature"),
          DisableOpenStackApplicationStep >>,
       << TerraformInitStep("grafana-agent"),
          RemoveGrafanaAgentStep >>,
       << TerraformInitStep("cos"),
          RemoveObservabilityStackStep >> >>

UpdateProxyModelConfigsPlans ==
    << << TerraformInitStep("cos"),
          UpdateObservabilityModelConfigStep >> >>

\* The plan of a caller of the certificates step: the step and a step after it.
CertificatesPlans ==
    << << DeployCertificatesProviderApplicationStep,
          OpaqueStep("NextStep", "") >> >>

JujuLoginPlans == << << OpaqueStep("JujuLoginStep", "") >> >>

PlansOf(c, um) ==
    CASE c = "ir_enable" -> InstanceRecoveryEnablePlans(um)
      [] c = "ir_disable" -> InstanceRecoveryDisablePlans
      [] c = "obs_enable" -> ObservabilityEnablePlans(um)
      [] c = "obs_disable" -> ObservabilityDisablePlans
      [] c = "obs_update_proxy" -> UpdateProxyModelConfigsPlans
      [] c = "juju_login" -> JujuLoginPlans
      [] c = "openrc" -> <<>>
      [] OTHER -> CertificatesPlans

EchoOf(c) ==
    CASE c = "ir_enable" -> "application enabled"
      [] c = "ir_disable" -> "application disabled"
      [] c = "obs_enable" -> "Observability enabled."
      [] c = "obs_disable" -> "Observability disabled."
      [] c = "juju_login" -> "Juju re-login complete."
      [] c = "openrc" -> "# openrc for access to OpenStack"
      [] OTHER -> ""

\* Mutant: the command swallows the failure of run_plan and goes on.
AfterRunPlanSwallow(ph, n, outcome) ==
    IF ph < n THEN [pc |-> "call_run_plan", phase |-> ph + 1]
    ELSE [pc |-> "done", phase |-> ph]

\* Mutant: the command hands the plan it just ran to run_plan again.
AfterRunPlanRepeat(ph, n, outcome) ==
    IF outcome = "raised" THEN [pc |-> "aborted", phase |-> ph]
    ELSE IF ph < n THEN [pc |-> "call_run_plan", phase |-> ph]
    ELSE [pc |-> "done", phase |-> ph]

\* What the command does once run_plan(plans[ph]) has ended: the statement
\* after a run_plan call runs only when the call returned; an exception of
\* run_plan is handled nowhere in the command and ends it.
AfterRunPlan(ph, n, outcome) ==
    IF outcome = "raised" THEN [pc |-> "aborted", phase |-> ph]
    ELSE IF ph < n THEN [pc |-> "call_run_plan", phase |-> ph + 1]
    ELSE [pc |-> "done", phase |-> ph]

\* Mutant: the helper of "openstack-plan" is one no step initialises.
OpenstackPlanHelperUninitialised == "openstack"

\* deployment.get_tfhelper("openstack-plan"): the plan of the feature itself
\* (self.tfplan), whose helper run_enable_plans hands to
\* DeployConsulClientStep as openstack_tfhelper.
OpenstackPlanHelper == "feature"

\* The Terraform helpers run() of a step uses to apply, destroy or read.
HelperUses(c, name) ==
    CASE name = "EnableOpenStackApplicationStep" ->
            IF c = "obs_enable" THEN {"feature", "cos"} ELSE {"feature"}
      [] name = "DisableOpenStackApplicationStep" -> {"feature"}
      [] name = "DeployConsulClientStep" -> {"consul-client", "feature"}
      [] name = "RemoveConsulClientStep" -> {"consul-client"}
      [] name = "ReapplyHypervisorTerraformPlanStep" -> {"hypervisor"}
      [] name \in {"DeployObservabilityStackStep", "RemoveObservabilityStackStep",
                   "UpdateObservabilityModelConfigStep"} -> {"cos"}
      [] name = "DeployGrafanaAgentStep" -> {"grafana-agent", "cos"}
      [] name = "RemoveGrafanaAgentStep" -> {"grafana-agent"}
      [] OTHER -> {}

\* The helpers the command uses itself once run_plan(plans[ph]) returned.
HelperUsesAfterPlan(c, ph) ==
    IF c = "ir_enable" /\ ph = 1 THEN {OpenstackPlanHelper} ELSE {}

Plans == PlansOf(cmd, userManifest)
CurPlan == Plans[phase]
CurStep == CurPlan[idx]

Event(e, r) ==
    [ev |-> e, plan |-> phase, idx |-> idx, name |-> CurStep.name,
     arg |-> CurStep.arg, res |-> r]


\* ----------------------------------------------------------- run_plan rules
\* run_plan after is_skip returned r: SKIPPED advances without calling run.
RunPlanOnSkip(r) == IF r.type = "SKIPPED" THEN "advance" ELSE "run"

\* run_plan after run returned r: the first FAILED aborts the plan.
RunPlanOnResult(r) == IF r.type = "FAILED" THEN "raise" ELSE "advance"

\* run_plan when is_skip raised: the step counts as failed, the plan ends.
RunPlanOnSkipRaise == "plan_raised"

AdvancePc == IF idx < Len(CurPlan) THEN "is_skip" ELSE "plan_returned"
AdvanceIdx == IF idx < Len(CurPlan) THEN idx + 1 ELSE idx

Terminal == {"done", "aborted", "crashed", "preflight_failed"}

\* ------------------------------------------------------ deployment registry
\* Deployment names; the empty string is a name Python takes as false.
Names == {"", "a", "b"}
\* active: None
NoneName == "<None>"

Deployment(n, r) == [name |-> n, rev |-> r]
Deployments == {Deployment(n, r) : n \in Names, r \in 0..MaxRev}

\* Content of a file: a complete YAML document {active, deployments}, an
\* empty file, a cut-off document, or no file at all.
Doc(a, d) == [kind |-> "doc", active |-> a, deps |-> d]
EmptyFile == [kind |-> "empty", active |-> NoneName, deps |-> <<>>]
PartialFile == [kind |-> "partial", active |-> NoneName, deps |-> <<>>]
MissingFile == [kind |-> "missing", active |-> NoneName, deps |-> <<>>]

\* What an operation returned or raised.
NoDeployment == Deployment(NoneName, 0)
Returned(d) == [kind |-> "returned", msg |-> "", arg |-> "", dep |-> d]
Raised(k, m, a) == [kind |-> k, msg |-> m, arg |-> a, dep |-> NoDeployment]
NoOut == [kind |-> "none", msg |-> "", arg |-> "", dep |-> NoDeployment]
\* A call: the registry in memory when it was made, and its argument (a
\* deployment, or a name as a deployment of that name).
Call(a, deps, d) == [mem |-> Doc(a, deps), arg |-> d]
NoCall == Call(NoneName, <<>>, NoDeployment)
\* LocalDeployment(): the default local deployment
LocalDeployment == Deployment("local", 0)

\* get_deployment(name): the first deployment of the list with that name;
\* 0 stands for its ValueError.
GetDeployment(deps, n) ==
    IF \E i \in 1..Len(deps) : deps[i].name = n
      THEN CHOOSE i \in 1..Len(deps) :
               /\ deps[i].name = n
               /\ \A j \in 1..(i - 1) : deps[j].name # n
      ELSE 0

\* Mutant: get_active falls back to the first deployment of the list.
GetActiveFallback(active, deps) ==
    IF active \in {NoneName, ""}
      THEN Raised("ValueError", "No active deployment found.", "")
    ELSE IF GetDeployment(deps, active) = 0
      THEN IF Len(deps) > 0 THEN Returned(deps[1])
           ELSE Returned(LocalDeployment)
    ELSE Returned(deps[GetDeployment(deps, active)])

\* get_active(): "if not active" holds for None and for the empty string.
GetActive(active, deps) ==
    IF active \in {NoneName, ""}
      THEN Raised("ValueError", "No active deployment found.", "")
    ELSE IF GetDeployment(deps, active) = 0
      THEN Raised("ValueError",
                  "Active deployment {active} not found in configuration.",
                  active)
    ELSE Returned(deps[GetDeployment(deps, active)])

\* DeploymentsConfig.load(path): an empty file loads as an empty registry,
\* a cut-off document is no valid registry.
Load(file) ==
    CASE file.kind = "doc" -> Doc(file.active, file.deps)
      [] file.kind = "partial" -> PartialFile
      [] OTHER -> Doc(NoneName, <<>>)

\* load_deployment(path)
LoadDeployment(file) ==
    IF file.kind = "missing" THEN Returned(LocalDeployment)
    ELSE IF Load(file).kind = "partial"
      THEN Raised("ValueError", "{path} is corrupted", "")
    ELSE IF Load(file).active = NoneName THEN Returned(LocalDeployment)
    ELSE GetActive(Load(file).active, Load(file).deps)

\* The files a registry can be loaded from when a command starts.
InitialLists ==
    UNION {[1..k -> {Deployment(n, 0) : n \in Names}] : k \in 0..MaxDeployments}
InitialFiles ==
    {MissingFile} \cup {Doc(a, d) : a \in Names \cup {NoneName}, d \in InitialLists}

\* No registry operation takes part in the run of a plan.
RegistryUnused ==
    /\ regDeps = <<>>
    /\ regActive = NoneName
    /\ fileDoc = MissingFile
    /\ tmpDoc = MissingFile
    /\ oldDoc = MissingFile
    /\ regPc = "idle"
    /\ regOp = "none"
    /\ regOut = NoOut
    /\ regCall = NoCall

\* get_application finds tls-operator: it was there, or a run deployed it.
AppInModel == appExists \/ deployed > 0

\* -------------------------------------------------------------------- Init
UsesManifest(c) == c \in {"ir_enable", "obs_enable"}
TracksApps(c) == c \in {"ir_enable", "obs_enable"}

\* -------------------------------- instance recovery: consul configuration
CONSUL_MANAGEMENT_SERF_LAN_PORT == 30301
CONSUL_TENANT_SERF_LAN_PORT == 30311
CONSUL_STORAGE_SERF_LAN_PORT == 30321
CONSUL_CLIENT_MANAGEMENT_SERF_LAN_PORT == 8301
CONSUL_CLIENT_TENANT_SERF_LAN_PORT == 8311
CONSUL_CLIENT_STORAGE_SERF_LAN_PORT == 8321

\* class ConsulServerNetworks, in the order of the enum
ConsulServerNetworks == <<"management", "tenant", "storage">>
ConsulNets == {"management", "tenant", "storage"}

\* Networks of the deployment and the spaces they can be mapped to;
\* get_space raises ValueError for a network without a space.
Networks == {"management", "storage", "data"}
Spaces == {"alpha", "beta", "gamma"}
NoSpace == "<None>"
SpaceAssignments == [Networks -> Spaces \cup {NoSpace}]
SpaceNotSet == [kind |-> "ValueError", val |-> "no space for the network"]

\* f"consul-{network.value}", f"consul-client-{network.value}" and
\* f"enable-consul-{network.value}" (written out network by network in
\* the tfvars functions)
ConsulName(n) ==
    CASE n = "management" -> "consul-management"
      [] n = "tenant" -> "consul-tenant"
      [] n = "storage" -> "consul-storage"
ConsulClientName(n) ==
    CASE n = "management" -> "consul-client-management"
      [] n = "tenant" -> "consul-client-tenant"
      [] n = "storage" -> "consul-client-storage"
EnableKey(n) ==
    CASE n = "management" -> "enable-consul-management"
      [] n = "tenant" -> "enable-consul-tenant"
      [] n = "storage" -> "enable-consul-storage"
NetOf(key) ==
    CHOOSE n \in ConsulNets : key \in {ConsulName(n), ConsulClientName(n), EnableKey(n)}

\* dict values: a function from its keys; d.update(e)
EmptyDict == [k \in {} |-> 0]
DictUpdate(d, e) ==
    [k \in DOMAIN d \cup DOMAIN e |-> IF k \in DOMAIN e THEN e[k] ELSE d[k]]
DictGet(d, k, default) == IF k \in DOMAIN d THEN d[k] ELSE default

\* The manifest: no feature section, no entry for the charm, or an entry
\* with a config section and a config-map of one dict per consul network.
Charms == {"consul-k8s", "consul-client"}
ConfigKeys == {"serflan-node-port", "serf-lan-port"}
ConfigPorts == {9001}
ConfigMapPorts == {9002}
DictsOver(keys, vs) == UNION {[ks -> vs] : ks \in SUBSET keys}
NoFeatureManifest ==
    [feature |-> FALSE, charm |-> "<None>", config |-> EmptyDict,
     configMap |-> EmptyDict]
NoCharmManifest ==
    [feature |-> TRUE, charm |-> "<None>", config |-> EmptyDict,
     configMap |-> EmptyDict]
Manifests ==
    {NoFeatureManifest, NoCharmManifest} \cup
    [feature : {TRUE}, charm : Charms,
     config : DictsOver(ConfigKeys, ConfigPorts),
     configMap : [{ConsulName(n) : n \in ConsulNets} ->
                     DictsOver(ConfigKeys, ConfigMapPorts)]]

\* Mutant: the tenant server is compared with the management space only.
ConsulServersToEnableIgnoresStorage(sp) ==
    LET management_space == sp["management"]
    IN [n \in ConsulNets |->
          CASE n = "management" -> sp["management"] # NoSpace
            [] n = "storage" -> /\ sp["storage"] # NoSpace
                                /\ sp["storage"] # management_space
            [] n = "tenant" -> /\ sp["data"] # NoSpace
                               /\ sp["data"] # management_space]

\* consul_servers_to_enable: a space that is not set leaves the local
\* variable None and the server disabled.
ConsulServersToEnable(sp) ==
    LET management_space == sp["management"]
        storage_space == sp["storage"]
    IN [n \in ConsulNets |->
          CASE n = "management" -> sp["management"] # NoSpace
            [] n = "storage" -> /\ sp["storage"] # NoSpace
                                /\ sp["storage"] # management_space
            [] n = "tenant" -> /\ sp["data"] # NoSpace
                               /\ sp["data"] \notin {management_space, storage_space}]

\* Mutant: the config section wins over the config-map.
GetConfigFromManifestConfigWins(m, charm, n) ==
    IF ~m.feature \/ m.charm # charm THEN EmptyDict
    ELSE DictUpdate(DictGet(m.configMap, ConsulName(n), EmptyDict), m.config)

\* get_config_from_manifest(charm, network)
GetConfigFromManifest(m, charm, n) ==
    IF ~m.feature THEN EmptyDict
    ELSE IF m.charm # charm THEN EmptyDict
    ELSE DictUpdate(DictUpdate(EmptyDict, m.config),
                    DictGet(m.configMap, ConsulName(n), EmptyDict))

EnabledNets(sp) ==
    SelectSeq(ConsulServerNetworks, LAMBDA n : ConsulServersToEnable(sp)[n])
NamesOf(nets, Name(_)) == [i \in 1..Len(nets) |-> Name(nets[i])]

\* set_application_names
SetApplicationNames(sp, topology) ==
    <<"masakari", "masakari-mysql-router">>
      \o NamesOf(EnabledNets(sp), ConsulName)
      \o (IF topology = "multi" THEN <<"masakari-mysql">> ELSE <<>>)

\* Mutant: every consul client is waited for.
SetConsulClientApplicationNamesAll(sp) ==
    NamesOf(ConsulServerNetworks, ConsulClientName)

\* set_consul_client_application_names
SetConsulClientApplicationNames(sp) == NamesOf(EnabledNets(sp), ConsulClientName)

\* "serflan-node-port" in the built-in config of the server of a network
ServerDefaultPort(n) == CONSUL_TENANT_SERF_LAN_PORT

\* "serf-lan-port" in the built-in config of the client of a network
ClientDefaultPort(n) ==
    CASE n = "management" -> CONSUL_CLIENT_MANAGEMENT_SERF_LAN_PORT
      [] n = "tenant" -> CONSUL_CLIENT_TENANT_SERF_LAN_PORT
      [] n = "storage" -> CONSUL_CLIENT_STORAGE_SERF_LAN_PORT

ServerDefaults(n) ==
    [k \in {"expose-gossip-and-rpc-ports", "serflan-node-port"} |->
        IF k = "serflan-node-port" THEN ServerDefaultPort(n) ELSE TRUE]
ClientDefaults(n) == [k \in {"serf-lan-port"} |-> ClientDefaultPort(n)]

\* Mutant: the built-in default is applied over the manifest's value.
OverManifestDefaultWins(defaults, fromManifest) == DictUpdate(fromManifest, defaults)

\* _x_config = {defaults}; _x_config.update(get_config_from_manifest(...))
OverManifest(defaults, fromManifest) == DictUpdate(defaults, fromManifest)

\* consul-config-map of the enabled networks
ConsulConfigMap(sp, m, charm, Defaults(_)) ==
    [c \in {ConsulName(n) : n \in {x \in ConsulNets : ConsulServersToEnable(sp)[x]}} |->
        OverManifest(Defaults(NetOf(c)), GetConfigFromManifest(m, charm, NetOf(c)))]

\* set_tfvars_on_enable
SetTfvarsOnEnable(sp, m) ==
    [enable |-> [k \in {EnableKey(n) : n \in ConsulNets} |->
                    ConsulServersToEnable(sp)[NetOf(k)]],
     configMap |-> ConsulConfigMap(sp, m, "consul-k8s", ServerDefaults),
     masakari |-> TRUE]

\* The space a consul client's "consul" endpoint is bound to.
EndpointNetwork(n) ==
    CASE n = "management" -> "management"
      [] n = "tenant" -> "data"
      [] n = "storage" -> "storage"

\* _get_tfvars: the bindings of every enabled network name the management
\* space, so get_space raises when there is none.  The first binding of a
\* network has no "endpoint" key; the keys taken from the Terraform helper
\* and the model name do not depend on the spaces and are left out.
GetTfvarsRaises(sp) ==
    /\ sp["management"] = NoSpace
    /\ \E n \in ConsulNets : ConsulServersToEnable(sp)[n]

GetTfvars(sp, m) ==
    [enable |-> [k \in {EnableKey(n) : n \in ConsulNets} |->
                    ConsulServersToEnable(sp)[NetOf(k)]],
     configMap |-> ConsulConfigMap(sp, m, "consul-client", ClientDefaults),
     bindingsMap |->
        [c \in {ConsulName(n) : n \in {x \in ConsulNets : ConsulServersToEnable(sp)[x]}} |->
            <<[endpoint |-> "", space |-> sp["management"]],
              [endpoint |-> "consul", space |-> sp[EndpointNetwork(NetOf(c))]]>>]]

\* set_tfvars_on_disable
SetTfvarsOnDisable ==
    [enable |-> [k \in {EnableKey(n) : n \in ConsulNets} |-> FALSE],
     masakari |-> FALSE]

\* What the cluster database holds under the consul client's key once the
\* feature is enabled: the tfvars the deploy step applied.
StoredOnEnable == [enable |-> "as applied", configMap |-> "as applied",
                   bindingsMap |-> "as applied"]

\* Mutant: update_config is called however the wait ended.
ConfigAfterWaitAlways(s, config, outcome) ==
    IF s = "RemoveConsulClientStep" THEN SetTfvarsOnDisable ELSE config

\* RemoveConsulClientStep.run after its wait: the except clause returns, so
\* update_config(client, key, set_tfvars_on_disable(...)) is reached only
\* when the wait returned.  No other step of the model stores a config.
ConfigAfterWait(s, config, outcome) ==
    IF s = "RemoveConsulClientStep" /\ outcome = "returned"
      THEN SetTfvarsOnDisable
      ELSE config

NoConsulOut == [kind |-> "none", val |-> ""]
ConsulReturned(v) == [kind |-> "returned", val |-> v]

ConsulUnused ==
    /\ spaces = [n \in Networks |-> NoSpace]
    /\ manifest = NoFeatureManifest
    /\ consulOp = <<"none">>
    /\ consulOut = NoConsulOut

Init ==
    /\ cmd \in Commands
    /\ userManifest \in (IF UsesManifest(cmd) THEN BOOLEAN ELSE {FALSE})
    /\ nApps \in (IF TracksApps(cmd) THEN 0..MaxApps ELSE {0})
    /\ appExists \in (IF cmd = "certificates" THEN BOOLEAN ELSE {FALSE})
    /\ nMachines \in (IF cmd = "certificates" THEN 0..MaxMachines ELSE {0})
    /\ deployed = 0
    /\ confirmed = FALSE
    /\ storedConfig = StoredOnEnable
    /\ openConns = 0
    /\ deployCall = NoDeployCall
    /\ runNo = 1
    /\ checkLog = <<>>
    /\ controllerOpened = FALSE
    /\ pc = "start"
    /\ phase = 1
    /\ idx = 1
    /\ stepPc = "idle"
    /\ applyCalls = 0
    /\ waitCalls = 0
    /\ elapsed = 0
    /\ remoteReady = FALSE
    /\ poller = "none"
    /\ qlen = 0
    /\ stepResult = NoResult
    /\ raised = NoExc
    /\ escaped = NoExc
    /\ trace = <<>>
    /\ exitCode = -1
    /\ exitMessage = ""
    /\ echoed = ""
    /\ RegistryUnused
    /\ ConsulUnused

consulVars == <<spaces, manifest, consulOp, consulOut>>
params == <<cmd, userManifest, nApps, appExists, nMachines, consulVars>>
jujuVars == <<openConns, deployCall>>
external == <<deployed, confirmed, storedConfig, jujuVars>>
regVars == <<regDeps, regActive, fileDoc, tmpDoc, oldDoc, regPc, regOp, regOut,
             regCall>>
session == <<checkLog, controllerOpened, regVars>>
inputs == <<params, external, runNo, session>>
waitVars == <<elapsed, remoteReady, qlen>>
callVars == <<applyCalls, waitCalls, raised>>
endVars == <<exitCode, exitMessage, echoed>>

\* ----------------------------------------------------------------- command
\* The command body up to its first run_plan call.  update_proxy_model_configs
\* returns at once when the plugin is not enabled or its status is unknown.
StartCommand ==
    /\ pc = "start"
    /\ \/ /\ pc' = IF PreflightChecks(cmd) = <<>> THEN "call_run_plan"
                                                  ELSE "preflight"
          /\ controllerOpened' =
                (controllerOpened \/ ControllerOpenedAt(cmd) = "start")
          /\ UNCHANGED endVars
       \/ /\ cmd = "obs_update_proxy"
          /\ pc' = "done"
          /\ exitCode' = 0
          /\ UNCHANGED <<controllerOpened, exitMessage, echoed>>
    /\ UNCHANGED <<params, external, runNo, checkLog, regVars, phase, idx,
                   stepPc, callVars, waitVars, poller, stepResult, escaped,
                   trace>>

\* run_preflight_checks(preflight_checks, console): the next check of the
\* list runs; a failing check prints its message and ends the process.
Preflight ==
    /\ pc = "preflight"
    /\ LET k == Len(checkLog) + 1
           c == PreflightChecks(cmd)[k]
       IN \E ok \in BOOLEAN :
             /\ checkLog' = Append(checkLog, [name |-> c, ok |-> ok])
             /\ IF RunPreflightOnCheck(ok) = "exit"
                  THEN /\ pc' = "preflight_failed"
                       /\ exitCode' = 1
                       /\ exitMessage' = c
                       /\ echoed' = echoed
                  ELSE /\ pc' = IF k < Len(PreflightChecks(cmd))
                                  THEN "preflight" ELSE "after_preflight"
                       /\ UNCHANGED endVars
    /\ UNCHANGED <<params, external, runNo, controllerOpened, regVars, phase,
                   idx, stepPc, callVars, waitVars, poller, stepResult,
                   escaped, trace>>

\* The command body after run_preflight_checks returned: openrc connects to
\* the controller and prints the credentials, juju_login runs its plan.
AfterPreflight ==
    /\ pc = "after_preflight"
    /\ controllerOpened' =
          (controllerOpened \/ ControllerOpenedAt(cmd) = "after_preflight")
    /\ IF Len(Plans) = 0
         THEN /\ pc' = "done"
              /\ exitCode' = 0
              /\ echoed' = EchoOf(cmd)
              /\ exitMessage' = exitMessage
         ELSE /\ pc' = "call_run_plan"
              /\ UNCHANGED endVars
    /\ UNCHANGED <<params, external, runNo, checkLog, regVars, phase, idx,
                   stepPc, callVars, waitVars, poller, stepResult, escaped,
                   trace>>

\* run_plan(plan, console): a plan with no step returns at once.
RunPlanEnter ==
    /\ pc = "call_run_plan"
    /\ idx' = 1
    /\ pc' = IF Len(CurPlan) = 0 THEN "plan_returned" ELSE "is_skip"
    /\ UNCHANGED <<inputs, phase, stepPc, callVars, waitVars, poller,
                   stepResult, escaped, trace, endVars>>

\* run_plan calls step.is_skip(status).
IsSkip ==
    /\ pc = "is_skip"
    /\ \E r \in IsSkipOutcomes(CurStep, AppInModel) :
          /\ trace' = Append(trace, Event("is_skip", r))
          /\ IF RunPlanOnSkip(r) = "advance"
                THEN /\ pc' = AdvancePc
                     /\ idx' = AdvanceIdx
                ELSE /\ pc' = "run"
                     /\ idx' = idx
    /\ deployed' = AfterCalls(IsSkipCalls(CurStep), deployed)
    /\ openConns' = OpenAfter(IsSkipCalls(CurStep), "", openConns)
    /\ UNCHANGED <<params, confirmed, storedConfig, deployCall, runNo, session, phase, stepPc, callVars,
                   waitVars, poller, stepResult, escaped, endVars>>

\* is_skip of the certificates step when a lookup fails.  run_plan treats an
\* is_skip that raised as a failed step: it stops and reports the failure.
IsSkipRaises ==
    /\ pc = "is_skip"
    /\ CurStep.kind = "cert"
    /\ \E e \in CertificatesLookupErrors :
          LET r == CertificatesIsSkipOnError(e)
          IN /\ raised' = e
             /\ IF r.type = "EXCEPTION"
                  THEN /\ trace' = Append(trace, Event("skip_raise", r))
                       /\ pc' = RunPlanOnSkipRaise
                       /\ escaped' = e
                       /\ idx' = idx
                  ELSE /\ trace' = Append(trace, Event("is_skip", r))
                       /\ escaped' = escaped
                       /\ IF RunPlanOnSkip(r) = "advance"
                            THEN /\ pc' = AdvancePc
                                 /\ idx' = AdvanceIdx
                            ELSE /\ pc' = "run"
                                 /\ idx' = idx
             /\ deployed' = AfterCalls(CallsUntil(IsSkipCalls(CurStep), e), deployed)
             /\ openConns' = OpenAfter(CallsUntil(IsSkipCalls(CurStep), e),
                                       FailedCall(e), openConns)
    /\ UNCHANGED <<params, confirmed, storedConfig, deployCall, runNo, session, phase, stepPc, applyCalls,
                   waitCalls, waitVars, poller, stepResult, endVars>>

\* run_plan calls step.run(status).
RunStart ==
    /\ pc = "run"
    /\ pc' = "in_run"
    /\ stepPc' = CASE CurStep.kind = "opaque" -> "opaque"
                   [] CurStep.kind = "cert" -> "machines"
                   [] OTHER -> "provision"
    /\ applyCalls' = 0
    /\ waitCalls' = 0
    /\ raised' = NoExc
    /\ elapsed' = 0
    /\ remoteReady' = FALSE
    /\ qlen' = 0
    /\ trace' = Append(trace, Event("run", NoResult))
    /\ UNCHANGED <<inputs, phase, idx, poller, stepResult, escaped, endVars>>

\* run() returns r to run_plan.
Return(r) ==
    /\ stepResult' = r
    /\ pc' = "run_returned"
    /\ stepPc' = "idle"
    /\ trace' = Append(trace, Event("ret", r))
    /\ UNCHANGED <<waitVars, escaped, endVars>>

\* exception e leaves run(); nothing in run_plan or the command handles it.
Escape(e) ==
    /\ escaped' = e
    /\ pc' = "crashed"
    /\ stepPc' = "idle"
    /\ trace' = Append(trace, Event("raise", Result("EXCEPTION", e.msg)))
    /\ exitCode' = 1
    /\ exitMessage' = e.msg
    /\ UNCHANGED <<waitVars, stepResult, echoed>>

OpaqueRun ==
    /\ pc = "in_run" /\ stepPc = "opaque"
    /\ \E r \in OpaqueRunOutcomes : Return(r)
    /\ UNCHANGED <<inputs, phase, idx, callVars, poller>>

\* try: apply / destroy   except TerraformException as e: return FAILED
Provision ==
    /\ pc = "in_run" /\ stepPc = "provision"
    /\ applyCalls' = applyCalls + 1
    /\ \E o \in TerraformOutcomes :
       /\ raised' = o
       /\ IF o = NoExc
            THEN IF CurStep.kind = "apply_only"
                   THEN /\ Return(COMPLETED)
                        /\ UNCHANGED <<waitCalls, poller>>
                 ELSE IF CurStep.task
                   THEN /\ stepPc' = "create_task"
                        /\ UNCHANGED <<pc, waitCalls, waitVars, poller, stepResult,
                                       escaped, trace, endVars>>
                 ELSE /\ stepPc' = "wait"
                      /\ waitCalls' = waitCalls + 1
                      /\ UNCHANGED <<pc, waitVars, poller, stepResult, escaped,
                                     trace, endVars>>
            ELSE IF ProvisionHandler(CurStep, o) = "return_failed"
              THEN /\ Return(FailedResult(o))
                   /\ UNCHANGED <<waitCalls, poller>>
            ELSE IF ProvisionHandler(CurStep, o) = "retry"
              THEN UNCHANGED <<pc, stepPc, waitCalls, waitVars, poller,
                               stepResult, escaped, trace, endVars>>
            ELSE /\ Escape(o)
                 /\ UNCHANGED <<waitCalls, poller>>
    /\ UNCHANGED <<inputs, phase, idx>>

\* DeployCertificatesProviderApplicationStep.run up to its wait.
CertMachines ==
    /\ pc = "in_run" /\ stepPc = "machines"
    /\ \E e \in CertificatesRunErrors \cup {NoExc} :
          /\ openConns' = OpenAfter(RunCallsUntil(CertificatesRunCalls, e),
                                    FailedCall(e), openConns)
          /\ IF e # NoExc
               THEN /\ Escape(e)
                    /\ UNCHANGED <<callVars, deployed, deployCall>>
             ELSE IF Len(MachineIds(nMachines)) = 0
               THEN /\ Return(Result("FAILED", "No machines found"))
                    /\ UNCHANGED <<callVars, deployed, deployCall>>
             ELSE /\ stepPc' = "wait"
                  /\ applyCalls' = applyCalls + 1
                  /\ deployed' = deployed + 1
                  /\ deployCall' = DeployCall(MachineIds(nMachines))
                  /\ waitCalls' = waitCalls + 1
                  /\ UNCHANGED <<pc, waitVars, raised, stepResult, escaped,
                                 trace, endVars>>
    /\ UNCHANGED <<params, confirmed, storedConfig, runNo, session, phase, idx, poller>>

\* queue = Queue(maxsize=len(apps)); task = run_sync(update_status_background(...))
\* and the call of the wait.
CreateTask ==
    /\ pc = "in_run" /\ stepPc = "create_task"
    /\ poller' = "running"
    /\ qlen' = 0
    /\ stepPc' = "wait"
    /\ waitCalls' = waitCalls + 1
    /\ UNCHANGED <<inputs, pc, phase, idx, applyCalls, raised, elapsed,
                   remoteReady, stepResult, escaped, trace, endVars>>

InWait == pc = "in_run" /\ stepPc = "wait"

Tick ==
    /\ InWait
    /\ elapsed < MaxTimeout
    /\ elapsed' = elapsed + 1
    /\ UNCHANGED <<inputs, pc, phase, idx, stepPc, callVars, remoteReady, qlen,
                   poller, stepResult, escaped, trace, endVars>>

\* The remote reaches the state waited for, before the timeout.
RemoteReaches ==
    /\ InWait
    /\ ~remoteReady
    /\ elapsed < MaxTimeout
    /\ remoteReady' = TRUE
    /\ UNCHANGED <<inputs, pc, phase, idx, stepPc, callVars, elapsed, qlen,
                   poller, stepResult, escaped, trace, endVars>>

\* asyncio.Queue(maxsize): maxsize 0 is an unbounded queue.
QueueHasRoom(n, maxsize) == IF maxsize = 0 THEN n < QueueCap ELSE n < maxsize

\* The background task pushes a status snapshot.
PollerPush ==
    /\ InWait
    /\ poller = "running"
    /\ CurStep.queue
    /\ QueueHasRoom(qlen, nApps)
    /\ qlen' = qlen + 1
    /\ UNCHANGED <<inputs, pc, phase, idx, stepPc, callVars, elapsed, remoteReady,
                   poller, stepResult, escaped, trace, endVars>>

\* The wait consumes a queue entry to refresh the progress display.
WaiterConsume ==
    /\ InWait
    /\ qlen > 0
    /\ qlen' = qlen - 1
    /\ UNCHANGED <<inputs, pc, phase, idx, stepPc, callVars, elapsed, remoteReady,
                   poller, stepResult, escaped, trace, endVars>>

\* The background task ends by itself while the loop runs.
PollerFinish ==
    /\ InWait
    /\ poller = "running"
    /\ poller' = "finished"
    /\ UNCHANGED <<inputs, pc, phase, idx, stepPc, callVars, waitVars,
                   stepResult, escaped, trace, endVars>>

\* The event loop runs again and the task receives its CancelledError.
PollerAcknowledge ==
    /\ poller = "cancelling"
    /\ pc \notin Terminal
    /\ poller' = "cancelled"
    /\ UNCHANGED <<inputs, pc, phase, idx, stepPc, callVars, waitVars,
                   stepResult, escaped, trace, endVars>>

\* The wait returns: the remote reached the desired state in time.
WaitReturns ==
    /\ InWait
    /\ remoteReady
    /\ Return(COMPLETED)
    /\ poller' = FinallyCancel(poller)
    /\ confirmed' = (confirmed \/ CurStep.kind = "cert")
    /\ storedConfig' = ConfigAfterWait(CurStep.name, storedConfig, "returned")
    /\ UNCHANGED <<params, deployed, jujuVars, runNo, session, phase, idx, callVars>>

\* The wait raises: the timeout expired, or an explicit wait failure.  Both
\* end a wait whose desired status was not reached; once it is reached the
\* wait returns.
WaitRaises ==
    /\ InWait
    /\ \E e \in {TimeoutExc, WaitExc} :
          /\ e = TimeoutExc => (elapsed = MaxTimeout /\ ~remoteReady)
          /\ e = WaitExc => ~remoteReady
          /\ raised' = e
          /\ IF e.exc \in CurStep.waitCatches
               THEN Return(FailedResult(e))
               ELSE Escape(e)
    /\ poller' = FinallyCancel(poller)
    /\ storedConfig' = ConfigAfterWait(CurStep.name, storedConfig, "raised")
    /\ UNCHANGED <<params, deployed, confirmed, jujuVars, runNo, session, phase, idx,
                   applyCalls, waitCalls>>

\* run_plan looks at the Result of run().
RunPlanHandleResult ==
    /\ pc = "run_returned"
    /\ IF RunPlanOnResult(stepResult) = "raise"
         THEN /\ pc' = "plan_raised"
              /\ escaped' = Exc("ClickException", stepResult.message)
              /\ idx' = idx
         ELSE /\ pc' = AdvancePc
              /\ idx' = AdvanceIdx
              /\ escaped' = escaped
    /\ UNCHANGED <<inputs, phase, stepPc, callVars, waitVars, poller,
                   stepResult, trace, endVars>>

\* The command after a run_plan call ended.
CommandContinue ==
    /\ pc \in {"plan_returned", "plan_raised"}
    /\ LET nxt == AfterRunPlan(phase, Len(Plans),
                               IF pc = "plan_raised" THEN "raised" ELSE "returned")
       IN /\ pc' = nxt.pc
          /\ phase' = nxt.phase
          /\ IF nxt.pc = "aborted"
               THEN /\ exitCode' = 1
                    /\ exitMessage' = escaped.msg
                    /\ echoed' = echoed
             ELSE IF nxt.pc = "done"
               THEN /\ exitCode' = 0
                    /\ echoed' = EchoOf(cmd)
                    /\ exitMessage' = exitMessage
             ELSE UNCHANGED endVars
    /\ UNCHANGED <<inputs, idx, stepPc, callVars, waitVars, poller,
                   stepResult, escaped, trace>>

\* The operator runs the command again after it failed; what the failed run
\* did to the model stays.
Rerun ==
    /\ cmd = "certificates"
    /\ pc \in {"aborted", "crashed"}
    /\ runNo < MaxRuns
    /\ runNo' = runNo + 1
    /\ pc' = "start"
    /\ phase' = 1
    /\ idx' = 1
    /\ stepPc' = "idle"
    /\ applyCalls' = 0
    /\ waitCalls' = 0
    /\ elapsed' = 0
    /\ remoteReady' = FALSE
    /\ poller' = "none"
    /\ qlen' = 0
    /\ stepResult' = NoResult
    /\ raised' = NoExc
    /\ escaped' = NoExc
    /\ trace' = <<>>
    /\ exitCode' = -1
    /\ exitMessage' = ""
    /\ echoed' = ""
    /\ UNCHANGED <<params, external, session>>

Next ==
    \/ StartCommand
    \/ Preflight
    \/ AfterPreflight
    \/ RunPlanEnter
    \/ IsSkip
    \/ IsSkipRaises
    \/ RunStart
    \/ OpaqueRun
    \/ Provision
    \/ CertMachines
    \/ CreateTask
    \/ Tick
    \/ RemoteReaches
    \/ PollerPush
    \/ WaiterConsume
    \/ PollerFinish
    \/ PollerAcknowledge
    \/ WaitReturns
    \/ WaitRaises
    \/ RunPlanHandleResult
    \/ CommandContinue
    \/ Rerun

Spec == Init /\ [][Next]_vars

\* The steps the interpreter takes by itself: a command that was started runs
\* on until it ends; the operator's re-run and the remote model are not part.
Interpreter ==
    \/ StartCommand
    \/ Preflight
    \/ AfterPreflight
    \/ RunPlanEnter
    \/ IsSkip
    \/ IsSkipRaises
    \/ RunStart
    \/ OpaqueRun
    \/ Provision
    \/ CertMachines
    \/ CreateTask
    \/ RunPlanHandleResult
    \/ CommandContinue

\* Fair scheduling: the interpreter goes on, the clock of a wait advances up
\* to the timeout, and a wait that can end (status reached, or timeout
\* expired) does end.  The poller and the consumer of the queue get no
\* fairness of their own: the wait does not depend on them.
SpecFair ==
    /\ Spec
    /\ WF_vars(Interpreter)
    /\ WF_vars(Tick)
    /\ WF_vars(WaitReturns \/ WaitRaises)

\* ------------------------------------------- deployment registry operations
planVars == <<params, external, runNo, checkLog, controllerOpened, pc, phase,
              idx, stepPc, callVars, waitVars, poller, stepResult, escaped,
              trace>>
engineVars == <<planVars, endVars>>

\* Commands of the deployment group that call the registry.
CliOps == {"cli_switch", "cli_show", "cli_export", "cli_import"}

\* Where write() returns to: a library call ends, a command goes on.
AfterCall(op) == IF op \in CliOps THEN "cli_return" ELSE "idle"

\* A command of the deployment group: the registry is loaded from its file
\* (deployment_path creates the file when there is none); no plan runs.
InitRegistry ==
    /\ cmd = "deployment"
    /\ userManifest = FALSE
    /\ nApps = 0
    /\ appExists = FALSE
    /\ nMachines = 0
    /\ deployed = 0
    /\ confirmed = FALSE
    /\ storedConfig = StoredOnEnable
    /\ openConns = 0
    /\ deployCall = NoDeployCall
    /\ runNo = 1
    /\ checkLog = <<>>
    /\ controllerOpened = FALSE
    /\ pc = "start"
    /\ phase = 1
    /\ idx = 1
    /\ stepPc = "idle"
    /\ applyCalls = 0
    /\ waitCalls = 0
    /\ elapsed = 0
    /\ remoteReady = FALSE
    /\ poller = "none"
    /\ qlen = 0
    /\ stepResult = NoResult
    /\ raised = NoExc
    /\ escaped = NoExc
    /\ trace = <<>>
    /\ exitCode = -1
    /\ exitMessage = ""
    /\ echoed = ""
    /\ fileDoc \in InitialFiles
    /\ regDeps = Load(fileDoc).deps
    /\ regActive = Load(fileDoc).active
    /\ tmpDoc = MissingFile
    /\ oldDoc = fileDoc
    /\ regPc = "idle"
    /\ regOp = "none"
    /\ regOut = NoOut
    /\ regCall = NoCall
    /\ ConsulUnused

memVars == <<regDeps, regActive>>
fileVars == <<fileDoc, tmpDoc, oldDoc>>

\* deployments.get_active()
CallGetActive ==
    /\ regPc = "idle"
    /\ regOp' = "get_active"
    /\ regOut' = GetActive(regActive, regDeps)
    /\ regCall' = Call(regActive, regDeps, NoDeployment)
    /\ UNCHANGED <<engineVars, memVars, fileVars, regPc>>

\* load_deployment(path)
CallLoadDeployment ==
    /\ regPc = "idle"
    /\ regOp' = "load_deployment"
    /\ regOut' = LoadDeployment(fileDoc)
    /\ regCall' = Call(regActive, regDeps, NoDeployment)
    /\ UNCHANGED <<engineVars, memVars, fileVars, regPc>>

\* Mutant: add_deployment appends before it looks for the name.
AddDeploymentAppendsFirst ==
    /\ regPc = "idle"
    /\ regOp' = "add_deployment"
    /\ \E d \in Deployments :
          /\ regCall' = Call(regActive, regDeps, d)
          /\ /\ Len(regDeps) < MaxDeployments
             /\ regDeps' = Append(regDeps, d)
             /\ IF GetDeployment(regDeps, d.name) # 0
                  THEN /\ regOut' = Raised("ValueError",
                                           "Deployment {name} already exists.", d.name)
                       /\ UNCHANGED <<regActive, fileVars, regPc>>
                  ELSE /\ regActive' = d.name
                       /\ regOut' = NoOut
                       /\ regPc' = "write"
                       /\ oldDoc' = fileDoc
                       /\ UNCHANGED <<fileDoc, tmpDoc>>
    /\ UNCHANGED engineVars

\* add_deployment(d) up to its call of write()
AddDeployment ==
    /\ regPc = "idle"
    /\ regOp' = "add_deployment"
    /\ \E d \in Deployments :
          /\ regCall' = Call(regActive, regDeps, d)
          /\ IF GetDeployment(regDeps, d.name) # 0
               THEN /\ regOut' = Raised("ValueError",
                                        "Deployment {name} already exists.", d.name)
                    /\ UNCHANGED <<memVars, fileVars, regPc>>
               ELSE /\ Len(regDeps) < MaxDeployments
                    /\ regDeps' = Append(regDeps, d)
                    /\ regActive' = d.name
                    /\ regOut' = NoOut
                    /\ regPc' = "write"
                    /\ oldDoc' = fileDoc
                    /\ UNCHANGED <<fileDoc, tmpDoc>>
    /\ UNCHANGED engineVars

\* Mutant: update_deployment removes the entry and appends the new one.
UpdateDeploymentAppends ==
    /\ regPc = "idle"
    /\ regOp' = "update_deployment"
    /\ \E d \in Deployments :
          /\ regCall' = Call(regActive, regDeps, d)
          /\ IF GetDeployment(regDeps, d.name) = 0
               THEN /\ regOut' = Raised("ValueError",
                                        "Deployment {name} not found in deployments.",
                                        d.name)
                    /\ UNCHANGED <<memVars, fileVars, regPc>>
               ELSE /\ regDeps' =
                         Append(SubSeq(regDeps, 1, GetDeployment(regDeps, d.name) - 1)
                                  \o SubSeq(regDeps, GetDeployment(regDeps, d.name) + 1,
                                            Len(regDeps)),
                                d)
                    /\ regOut' = NoOut
                    /\ regPc' = "write"
                    /\ oldDoc' = fileDoc
                    /\ UNCHANGED <<regActive, fileDoc, tmpDoc>>
    /\ UNCHANGED engineVars

\* update_deployment(d) up to its call of write()
UpdateDeployment ==
    /\ regPc = "idle"
    /\ regOp' = "update_deployment"
    /\ \E d \in Deployments :
          /\ regCall' = Call(regActive, regDeps, d)
          /\ IF GetDeployment(regDeps, d.name) = 0
               THEN /\ regOut' = Raised("ValueError",
                                        "Deployment {name} not found in deployments.",
                                        d.name)
                    /\ UNCHANGED <<memVars, fileVars, regPc>>
               ELSE /\ regDeps' = [regDeps EXCEPT ![GetDeployment(regDeps, d.name)] = d]
                    /\ regOut' = NoOut
                    /\ regPc' = "write"
                    /\ oldDoc' = fileDoc
                    /\ UNCHANGED <<regActive, fileDoc, tmpDoc>>
    /\ UNCHANGED engineVars

\* Mutant: switch without its early return on the active name.
SwitchNoEarlyReturn ==
    /\ regPc = "idle"
    /\ regOp' = "switch"
    /\ \E n \in Names :
          /\ regCall' = Call(regActive, regDeps, Deployment(n, 0))
          /\ IF GetDeployment(regDeps, n) = 0
               THEN /\ regOut' = Raised("ValueError",
                                        "Deployment {name} not found in deployments.", n)
                    /\ UNCHANGED <<memVars, fileVars, regPc>>
             ELSE /\ regActive' = n
                  /\ regOut' = NoOut
                  /\ regPc' = "write"
                  /\ oldDoc' = fileDoc
                  /\ UNCHANGED <<regDeps, fileDoc, tmpDoc>>
    /\ UNCHANGED engineVars

\* switch(name) up to its call of write()
Switch ==
    /\ regPc = "idle"
    /\ regOp' = "switch"
    /\ \E n \in Names :
          /\ regCall' = Call(regActive, regDeps, Deployment(n, 0))
          /\ IF regActive = n
               THEN /\ regOut' = Returned(NoDeployment)
                    /\ UNCHANGED <<memVars, fileVars, regPc>>
             ELSE IF GetDeployment(regDeps, n) = 0
               THEN /\ regOut' = Raised("ValueError",
                                        "Deployment {name} not found in deployments.", n)
                    /\ UNCHANGED <<memVars, fileVars, regPc>>
             ELSE /\ regActive' = n
                  /\ regOut' = NoOut
                  /\ regPc' = "write"
                  /\ oldDoc' = fileDoc
                  /\ UNCHANGED <<regDeps, fileDoc, tmpDoc>>
    /\ UNCHANGED engineVars

\* write(): yaml.safe_dump(self_dict, tmp); tmp.flush()
WriteDump ==
    /\ regPc = "write"
    /\ tmpDoc' = Doc(regActive, regDeps)
    /\ regPc' = "copy_open"
    /\ UNCHANGED <<engineVars, memVars, fileDoc, oldDoc, regOp, regOut, regCall>>

\* shutil.copy(tmp.name, self.path) opens the registry file for writing,
\* which cuts it to length zero.
CopyOpen ==
    /\ regPc = "copy_open"
    /\ fileDoc' = EmptyFile
    /\ regPc' = "copy_data"
    /\ UNCHANGED <<engineVars, memVars, tmpDoc, oldDoc, regOp, regOut, regCall>>

\* shutil.copy has written a first part of the document.
CopyData ==
    /\ regPc = "copy_data"
    /\ fileDoc' = PartialFile
    /\ regPc' = "copy_rest"
    /\ UNCHANGED <<engineVars, memVars, tmpDoc, oldDoc, regOp, regOut, regCall>>

\* shutil.copy has written the whole document.
CopyRest ==
    /\ regPc = "copy_rest"
    /\ fileDoc' = tmpDoc
    /\ regPc' = "chmod"
    /\ UNCHANGED <<engineVars, memVars, tmpDoc, oldDoc, regOp, regOut, regCall>>

\* self.path.chmod(0o600); write() and the operation that called it return.
Chmod ==
    /\ regPc = "chmod"
    /\ regPc' = AfterCall(regOp)
    /\ regOut' = Returned(NoDeployment)
    /\ tmpDoc' = MissingFile
    /\ UNCHANGED <<engineVars, memVars, fileDoc, oldDoc, regOp, regCall>>

\* shutil.copy raises (no space left, no permission): write() and the
\* operation that called it raise; nothing is undone.
CopyRaises ==
    /\ regPc \in {"copy_open", "copy_data", "copy_rest"}
    /\ regPc' = AfterCall(regOp)
    /\ regOut' = Raised("OSError", "copy failed", "")
    /\ tmpDoc' = MissingFile
    /\ UNCHANGED <<engineVars, memVars, fileDoc, oldDoc, regOp, regCall>>

InWrite == regPc \in {"write", "copy_open", "copy_data", "copy_rest", "chmod"}

\* The process dies while write() runs.
Crash ==
    /\ InWrite
    /\ regPc' = "crashed"
    /\ UNCHANGED <<engineVars, memVars, fileVars, regOp, regOut, regCall>>

\* ------------------------------------------ commands of the deployment group
\* deployment_path(snap): a missing file is created holding "{}".
DeploymentPath(file) == IF file.kind = "missing" THEN Doc(NoneName, <<>>) ELSE file

\* DeploymentsConfig.load(path) raises ValueError on a file that is no mapping.
LoadRaises(file) == Load(file).kind = "partial"
Corrupted == Raised("ValueError", "{path} is corrupted", "")
NotFound(n) == Raised("ValueError", "Deployment {name} not found in deployments.", n)

\* Final message of a command that reached its end.
CliEcho(op) ==
    CASE op = "cli_switch" -> "Deployment switched to {name}."
      [] op = "cli_export" -> "Deployment exported to {path}"
      [] op = "cli_import" -> "Deployment {name} imported."
      [] OTHER -> "{deployment}"

\* Mutant: the except clause prints the error and lets the command end normally.
CliHandlerNoExit(op, out) ==
    IF out.kind = "returned"
      THEN [code |-> 0, message |-> "", echo |-> CliEcho(op)]
      ELSE [code |-> 0, message |-> out.msg, echo |-> ""]

\* try: ... click.echo(final message)
\* except ValueError as e: click.echo(str(e)); sys.exit(1)
\* an exception the command does not catch ends the process as well.
CliHandler(op, out) ==
    IF out.kind = "returned"
      THEN [code |-> 0, message |-> "", echo |-> CliEcho(op)]
      ELSE [code |-> 1, message |-> out.msg, echo |-> ""]

\* The call a command makes on the registry it loaded; a command that does
\* not get to load it calls nothing.
CliCall(ok, d) ==
    IF ok /\ ~LoadRaises(fileDoc)
      THEN [mem |-> Load(DeploymentPath(fileDoc)), arg |-> d]
      ELSE NoCall

\* A failing LocalShareCheck ends the command before it loads the registry.
PreflightExit ==
    /\ regPc' = "exited"
    /\ regOut' = NoOut
    /\ exitCode' = 1
    /\ exitMessage' = "LocalShareCheck"
    /\ echoed' = ""
    /\ UNCHANGED <<memVars, fileVars>>

\* DeploymentsConfig.load(path) raised, outside (escapes) or inside a try.
LoadFails(escapes) ==
    /\ regPc' = IF escapes THEN "cli_escaped" ELSE "cli_return"
    /\ regOut' = Corrupted
    /\ UNCHANGED <<memVars, fileVars, endVars>>

\* sunbeam deployment switch NAME, up to the end of switch(name) or its write()
SwitchCommand ==
    /\ regPc = "idle"
    /\ regOp' = "cli_switch"
    /\ \E ok \in BOOLEAN, n \in Names :
          /\ regCall' = CliCall(ok, Deployment(n, 0))
          /\ IF ~ok THEN PreflightExit
             ELSE IF LoadRaises(fileDoc) THEN LoadFails(TRUE)
             ELSE LET cfg == Load(DeploymentPath(fileDoc))
                  IN /\ regDeps' = cfg.deps
                     /\ fileDoc' = DeploymentPath(fileDoc)
                     /\ oldDoc' = DeploymentPath(fileDoc)
                     /\ IF cfg.active = n
                          THEN /\ regActive' = cfg.active
                               /\ regOut' = Returned(NoDeployment)
                               /\ regPc' = "cli_return"
                        ELSE IF GetDeployment(cfg.deps, n) = 0
                          THEN /\ regActive' = cfg.active
                               /\ regOut' = NotFound(n)
                               /\ regPc' = "cli_return"
                        ELSE /\ regActive' = n
                             /\ regOut' = NoOut
                             /\ regPc' = "write"
                     /\ UNCHANGED <<tmpDoc, endVars>>
    /\ UNCHANGED planVars

\* sunbeam deployment show NAME / export NAME: get_deployment(name);
\* export loads the registry inside its try, show outside.
ReadCommand(op) ==
    /\ regPc = "idle"
    /\ regOp' = op
    /\ \E ok \in BOOLEAN, n \in Names :
          /\ regCall' = CliCall(ok, Deployment(n, 0))
          /\ IF ~ok THEN PreflightExit
             ELSE IF LoadRaises(fileDoc) THEN LoadFails(op = "cli_show")
             ELSE LET cfg == Load(DeploymentPath(fileDoc))
                  IN /\ regDeps' = cfg.deps
                     /\ regActive' = cfg.active
                     /\ fileDoc' = DeploymentPath(fileDoc)
                     /\ oldDoc' = DeploymentPath(fileDoc)
                     /\ regOut' = IF GetDeployment(cfg.deps, n) = 0
                                    THEN NotFound(n)
                                    ELSE Returned(cfg.deps[GetDeployment(cfg.deps, n)])
                     /\ regPc' = "cli_return"
                     /\ UNCHANGED <<tmpDoc, endVars>>
    /\ UNCHANGED planVars

ShowCommand == ReadCommand("cli_show")
ExportCommand == ReadCommand("cli_export")

\* sunbeam deployment import: the import step adds the deployment; a name
\* that exists makes the step fail and run_plan end the command.
ImportCommand ==
    /\ regPc = "idle"
    /\ regOp' = "cli_import"
    /\ \E ok \in BOOLEAN, d \in Deployments :
          /\ regCall' = CliCall(ok, d)
          /\ IF ~ok THEN PreflightExit
             ELSE IF LoadRaises(fileDoc) THEN LoadFails(FALSE)
             ELSE LET cfg == Load(DeploymentPath(fileDoc))
                  IN /\ fileDoc' = DeploymentPath(fileDoc)
                     /\ oldDoc' = DeploymentPath(fileDoc)
                     /\ IF GetDeployment(cfg.deps, d.name) # 0
                          THEN /\ regDeps' = cfg.deps
                               /\ regActive' = cfg.active
                               /\ regOut' = Raised("ValueError",
                                        "Deployment {name} already exists.", d.name)
                               /\ regPc' = "cli_return"
                          ELSE /\ Len(cfg.deps) < MaxDeployments
                               /\ regDeps' = Append(cfg.deps, d)
                               /\ regActive' = d.name
                               /\ regOut' = NoOut
                               /\ regPc' = "write"
                     /\ UNCHANGED <<tmpDoc, endVars>>
    /\ UNCHANGED planVars

\* The command prints its final message, or the error, and the process ends.
CommandEnds ==
    /\ regPc \in {"cli_return", "cli_escaped"}
    /\ regPc' = "exited"
    /\ exitCode' = CliHandler(regOp, regOut).code
    /\ exitMessage' = CliHandler(regOp, regOut).message
    /\ echoed' = CliHandler(regOp, regOut).echo
    /\ UNCHANGED <<planVars, memVars, fileVars, regOp, regOut, regCall>>

\* A later process loads the registry from the file the last one left.
NewProcess ==
    /\ regPc = "exited"
    /\ ~LoadRaises(fileDoc)
    /\ regPc' = "idle"
    /\ regDeps' = Load(fileDoc).deps
    /\ regActive' = Load(fileDoc).active
    /\ oldDoc' = fileDoc
    /\ regOp' = "none"
    /\ regOut' = NoOut
    /\ regCall' = NoCall
    /\ exitCode' = -1
    /\ exitMessage' = ""
    /\ echoed' = ""
    /\ UNCHANGED <<planVars, fileDoc, tmpDoc>>

NextRegistry ==
    \/ SwitchCommand
    \/ ShowCommand
    \/ ExportCommand
    \/ ImportCommand
    \/ CommandEnds
    \/ NewProcess
    \/ CallGetActive
    \/ CallLoadDeployment
    \/ AddDeployment
    \/ UpdateDeployment
    \/ Switch
    \/ WriteDump
    \/ CopyOpen
    \/ CopyData
    \/ CopyRest
    \/ Chmod
    \/ CopyRaises
    \/ Crash

SpecRegistry == InitRegistry /\ [][NextRegistry]_vars

\* ------------------------------- functions of the instance-recovery feature
\* A deployment with its spaces and a manifest; no command runs.
InitConsul ==
    /\ cmd = "consul"
    /\ userManifest = FALSE
    /\ nApps = 0
    /\ appExists = FALSE
    /\ nMachines = 0
    /\ deployed = 0
    /\ confirmed = FALSE
    /\ storedConfig = StoredOnEnable
    /\ openConns = 0
    /\ deployCall = NoDeployCall
    /\ runNo = 1
    /\ checkLog = <<>>
    /\ controllerOpened = FALSE
    /\ pc = "start"
    /\ phase = 1
    /\ idx = 1
    /\ stepPc = "idle"
    /\ applyCalls = 0
    /\ waitCalls = 0
    /\ elapsed = 0
    /\ remoteReady = FALSE
    /\ poller = "none"
    /\ qlen = 0
    /\ stepResult = NoResult
    /\ raised = NoExc
    /\ escaped = NoExc
    /\ trace = <<>>
    /\ exitCode = -1
    /\ exitMessage = ""
    /\ echoed = ""
    /\ RegistryUnused
    /\ spaces \in SpaceAssignments
    /\ manifest \in Manifests
    /\ consulOp = <<"none">>
    /\ consulOut = NoConsulOut

\* A call of one function of the feature on the deployment and manifest;
\* the functions keep no state, so one call is made on each input.
ConsulCall(op, out) ==
    /\ cmd = "consul"
    /\ consulOp = <<"none">>
    /\ consulOp' = op
    /\ consulOut' = out
    /\ UNCHANGED <<cmd, userManifest, nApps, appExists, nMachines, external,
                   runNo, session, pc, phase, idx, stepPc, callVars, waitVars,
                   poller, stepResult, escaped, trace, endVars, spaces,
                   manifest>>

CallConsulServersToEnable ==
    ConsulCall(<<"consul_servers_to_enable">>,
               ConsulReturned(ConsulServersToEnable(spaces)))

CallGetConfigFromManifest ==
    \E charm \in Charms, n \in ConsulNets :
        ConsulCall(<<"get_config_from_manifest", charm, n>>,
                   ConsulReturned(GetConfigFromManifest(manifest, charm, n)))

CallSetApplicationNames ==
    \E topology \in {"single", "multi"} :
        ConsulCall(<<"set_application_names", topology>>,
                   ConsulReturned(SetApplicationNames(spaces, topology)))

CallSetConsulClientApplicationNames ==
    ConsulCall(<<"set_consul_client_application_names">>,
               ConsulReturned(SetConsulClientApplicationNames(spaces)))

CallSetTfvarsOnEnable ==
    ConsulCall(<<"set_tfvars_on_enable">>,
               ConsulReturned(SetTfvarsOnEnable(spaces, manifest)))

CallGetTfvars ==
    ConsulCall(<<"_get_tfvars">>,
               IF GetTfvarsRaises(spaces) THEN SpaceNotSet
               ELSE ConsulReturned(GetTfvars(spaces, manifest)))

NextConsul ==
    \/ CallConsulServersToEnable
    \/ CallGetConfigFromManifest
    \/ CallSetApplicationNames
    \/ CallSetConsulClientApplicationNames
    \/ CallSetTfvarsOnEnable
    \/ CallGetTfvars

SpecConsul == InitConsul /\ [][NextConsul]_vars


\* ------------------------------------------------------------ trace helpers
N == Len(trace)
SameStep(a, b) == a.plan = b.plan /\ a.idx = b.idx
Earlier(a, b) == a.plan < b.plan \/ (a.plan = b.plan /\ a.idx < b.idx)
IsFailedReturn(e) == e.ev = "ret" /\ e.res.type = "FAILED"
NoFailure ==
    \A i \in 1..N : /\ ~IsFailedReturn(trace[i])
                     /\ trace[i].ev \notin {"raise", "skip_raise"}
LastPlan == Len(Plans)

\* ---------------------------------------------------------------------- C1
\* C1: once run() of a step returned FAILED, no is_skip or run of any later
\* step is invoked, run_plan raises with that step's message, the command
\* runs nothing after that run_plan call (no later plan, no final message)
\* and the process ends with a non-zero exit code and the step's message.
C1_FailedAbortsPlanAndCommand ==
    \A i \in 1..N :
        IsFailedReturn(trace[i]) =>
            /\ i = N
            /\ pc \in {"run_returned", "plan_raised", "aborted"}
            /\ phase = trace[i].plan
            /\ echoed = ""
            /\ pc = "plan_raised" => escaped = Exc("ClickException", trace[i].res.message)
            /\ pc = "aborted" => (exitCode = 1 /\ exitMessage = trace[i].res.message)

C1_Witness ==
    /\ cmd = "ir_enable"
    /\ pc = "aborted"
    /\ phase = 1
    /\ idx < Len(CurPlan)
    /\ N > 0 /\ IsFailedReturn(trace[N])
    /\ exitMessage = "step failed"

\* ---------------------------------------------------------------------- C2
\* C2: run() of a step is invoked at most once and the invocations follow the
\* order of the plans and of the steps in them; when no invoked run() failed,
\* no run_plan call fails, and the command that ends has visited every step
\* of every plan, exits with code 0 and printed its final message.
C2_OnceInOrderAndSuccess ==
    /\ \A i, j \in 1..N :
          (i < j /\ trace[i].ev = "run" /\ trace[j].ev = "run")
              => Earlier(trace[i], trace[j])
    /\ \A i, j \in 1..N : i < j => ~Earlier(trace[j], trace[i])
    /\ NoFailure => pc \notin {"plan_raised", "aborted", "crashed"}
    /\ (NoFailure /\ pc = "done" /\ N > 0) =>
          /\ exitCode = 0
          /\ echoed = EchoOf(cmd)
          /\ \A p \in 1..LastPlan : \A k \in 1..Len(Plans[p]) :
                \E i \in 1..N : /\ trace[i].ev = "is_skip"
                                /\ trace[i].plan = p
                                /\ trace[i].idx = k

C2_Witness ==
    /\ cmd = "ir_disable"
    /\ pc = "done"
    /\ NoFailure
    /\ Cardinality({i \in 1..N : trace[i].ev = "run"}) = 7

\* ---------------------------------------------------------------------- C3
\* C3: for every is_skip call, a SKIPPED result means run() of that step is
\* never invoked and run_plan goes to the next step; a COMPLETED result means
\* run() of that step is invoked next.  For the certificates step: when the
\* application exists its run() is never invoked, when it does not exist
\* run() is invoked.
C3_SkipDecidesRun ==
    /\ \A i \in 1..N :
          trace[i].ev = "is_skip" =>
             /\ trace[i].res.type = "SKIPPED" =>
                   /\ \A j \in 1..N :
                         ~(trace[j].ev = "run" /\ SameStep(trace[i], trace[j]))
                   /\ i < N => /\ trace[i + 1].ev = "is_skip"
                               /\ Earlier(trace[i], trace[i + 1])
                               /\ trace[i + 1].plan = trace[i].plan
                                     => trace[i + 1].idx = trace[i].idx + 1
                   /\ i = N =>
                         \/ pc = "is_skip" /\ phase = trace[i].plan
                                           /\ idx = trace[i].idx + 1
                         \/ /\ trace[i].idx = Len(Plans[trace[i].plan])
                            /\ \/ pc \in {"plan_returned", "call_run_plan", "done"}
                               \/ pc = "is_skip" /\ phase > trace[i].plan /\ idx = 1
             /\ trace[i].res.type = "COMPLETED" =>
                   /\ i < N => /\ trace[i + 1].ev = "run"
                               /\ SameStep(trace[i], trace[i + 1])
                   /\ i = N => /\ pc = "run"
                               /\ phase = trace[i].plan
                               /\ idx = trace[i].idx
    /\ cmd = "certificates" =>
          /\ appExists => \A j \in 1..N : ~(trace[j].ev = "run" /\ trace[j].idx = 1)
          /\ (~appExists /\ runNo = 1 /\ N > 1) => trace[2].ev = "run"

C3_Witness ==
    /\ cmd = "certificates"
    /\ appExists
    /\ pc = "done"
    /\ trace[1].ev = "is_skip" /\ trace[1].res = SKIPPED
    /\ \A j \in 1..N : trace[j].idx = 1 => j = 1

\* ---------------------------------------------------------------------- C4
ObsEnableRank(e) ==
    CASE e.name = "AddManifestStep" -> 1
      [] e.name = "TerraformInitStep" /\ e.arg = "cos" -> 2
      [] e.name \in {"DeployObservabilityStackStep", "PatchCosLoadBalancerStep"} -> 2
      [] e.name = "TerraformInitStep" /\ e.arg = "feature" -> 3
      [] e.name = "EnableOpenStackApplicationStep" -> 3
      [] OTHER -> 4

\* C4: steps never overlap: an invoked run() is followed by its own return
\* (or exception) before any other is_skip or run, a step is inside run()
\* only while the last event is its invocation, the events of the plans of a
\* command never interleave, and observability enable goes through plan,
\* cos_plan, grafana_agent_k8s_plan and grafana_agent_plan in that order.
C4_StepsNeverOverlap ==
    /\ \A i \in 1..N :
          trace[i].ev = "run" =>
             /\ i < N => /\ trace[i + 1].ev \in {"ret", "raise"}
                         /\ SameStep(trace[i], trace[i + 1])
             /\ i = N => pc = "in_run" /\ phase = trace[i].plan /\ idx = trace[i].idx
    /\ \A i \in 1..N :
          trace[i].ev \in {"ret", "raise"} =>
             i > 1 /\ trace[i - 1].ev = "run" /\ SameStep(trace[i], trace[i - 1])
    /\ pc = "in_run" => (N > 0 /\ trace[N].ev = "run")
    /\ \A i, j \in 1..N : i < j => trace[i].plan <= trace[j].plan
    /\ cmd = "obs_enable" =>
          \A i, j \in 1..N : i < j => ObsEnableRank(trace[i]) <= ObsEnableRank(trace[j])

C4_Witness ==
    /\ cmd = "obs_enable"
    /\ pc = "in_run"
    /\ CurStep.name = "DeployGrafanaAgentStep"
    /\ \E i \in 1..N : trace[i].ev = "ret" /\ trace[i].name = "DeployObservabilityStackStep"
    /\ \E i \in 1..N : trace[i].ev = "ret" /\ trace[i].name = "EnableOpenStackApplicationStep"


\* ---------------------------------------------------------------------- C5
RunEnded == pc \in {"run_returned", "crashed"}
TaskSteps == {"DeployConsulClientStep", "DeployObservabilityStackStep"}

\* C5: when the Terraform apply or destroy of a step raised, run() returned
\* Result(FAILED) with the exception's message, made that one provisioning
\* call, never called the wait, and let no exception out.
C5_ProvisionFailureIsFailedResult ==
    (RunEnded /\ raised.exc = "TerraformException") =>
        /\ pc = "run_returned"
        /\ stepResult = Result("FAILED", raised.msg)
        /\ applyCalls = 1
        /\ waitCalls = 0
        /\ escaped = NoExc

C5_Witness ==
    /\ pc = "run_returned"
    /\ CurStep.name = "DeployObservabilityStackStep"
    /\ raised = Exc("TerraformException", "apply failed...")
    /\ stepResult = Result("FAILED", "apply failed...")
    /\ waitCalls = 0

\* ---------------------------------------------------------------------- C6
\* C6: when provisioning succeeded and the wait raised a timeout exception,
\* run() returned Result(FAILED) with the timeout's message, after exactly
\* one provisioning call and exactly one wait call.
C6_TimeoutIsFailedResult ==
    (RunEnded /\ raised.exc = "TimeoutException") =>
        /\ pc = "run_returned"
        /\ stepResult = Result("FAILED", raised.msg)
        /\ applyCalls = 1
        /\ waitCalls = 1
        /\ escaped = NoExc

C6_Witness ==
    /\ pc = "run_returned"
    /\ CurStep.name = "RemoveObservabilityStackStep"
    /\ raised = TimeoutExc
    /\ stepResult = Result("FAILED", "timed out")
    /\ applyCalls = 1 /\ waitCalls = 1

\* ---------------------------------------------------------------------- C7
\* C7: in every step with a wait phase, a wait exception and a timeout
\* exception raised by the wait both become Result(FAILED, message); neither
\* leaves run() as an exception.
C7_WaitFailuresNeverEscape ==
    (RunEnded /\ raised.exc \in {"JujuWaitException", "TimeoutException"}) =>
        /\ pc = "run_returned"
        /\ stepResult = Result("FAILED", raised.msg)
        /\ escaped = NoExc

C9_TaskOverWhenRunReturnsCompleted ==
    (\E i \in 1..N : /\ trace[i].ev = "ret"
                     /\ trace[i].name \in TaskSteps
                     /\ trace[i].res = COMPLETED)
        => poller \in {"finished", "cancelled"}

\* --------------------------------------------------------------------- C10
\* C10: when the wait of a step with a background task timed out, run()
\* reports the timeout and the task is finished or its cancellation
\* acknowledged in every state from the return of run() on.
C10_TaskOverWhenTimeoutPropagates ==
    (N > 0 /\ trace[N].ev = "ret" /\ trace[N].name \in TaskSteps
           /\ raised = TimeoutExc)
        => /\ stepResult = Result("FAILED", TimeoutExc.msg)
           /\ poller \in {"finished", "cancelled"}

\* --------------------------------------------------------------------- C11
ProvisionSteps == {"deploy", "remove", "cert"}

C12_EmptyPlanIsTrivialSuccess ==
    /\ \A i \in 1..N : Len(Plans[trace[i].plan]) > 0
    /\ (pc # "start" /\ phase <= Len(Plans) /\ Len(CurPlan) = 0) =>
          /\ pc \in {"call_run_plan", "plan_returned"}
          /\ escaped = NoExc
          /\ exitCode = -1
    /\ (cmd = "obs_enable" /\ ~userManifest) =>
          /\ N > 0 => /\ trace[1].plan = 2
                      /\ trace[1].ev = "is_skip"
                      /\ trace[1].name = "TerraformInitStep"
                      /\ trace[1].arg = "cos"
          /\ pc \in Terminal => N > 0

C12_Witness ==
    /\ cmd = "obs_enable"
    /\ ~userManifest
    /\ \E i \in 1..N : /\ trace[i].ev = "ret"
                        /\ trace[i].name = "DeployObservabilityStackStep"
                        /\ trace[i].plan = 2
                        /\ trace[i].res = COMPLETED

\* --------------------------------------------------------------------- C17
\* C17: nothing is retried: run() of a step makes at most one provisioning
\* call and at most one wait call, also when one of them raised, and within
\* one run_plan no step's run() is invoked a second time.
C17_NoRetries ==
    /\ applyCalls <= 1
    /\ waitCalls <= 1
    /\ (RunEnded /\ raised.exc = "TerraformException") =>
          (applyCalls = 1 /\ waitCalls = 0)
    /\ \A i, j \in 1..N :
          (i < j /\ trace[i].ev = "run" /\ trace[j].ev = "run")
              => ~SameStep(trace[i], trace[j])

C17_Witness ==
    /\ cmd = "ir_disable"
    /\ pc = "run_returned"
    /\ CurStep.name = "RemoveConsulClientStep"
    /\ raised = Exc("TerraformException", "destroy failed...")
    /\ stepResult.type = "FAILED"
    /\ applyCalls = 1 /\ waitCalls = 0

\* --------------------------------------------------------------------- C19
\* C19: the progress queue never holds more entries than there are tracked
\* applications, whatever their number, zero included.
C19_QueueBoundedByApps == qlen <= nApps

\* --------------------------------------------------------------------- C20
\* C20: whatever the interleaving of the background task, the waiter and the
\* clock, and whatever the queue holds, run() of a step with a background
\* task that reached its wait returns a Result: COMPLETED exactly when the
\* remote reached the desired status before the timeout, FAILED otherwise.
C20_ResultIndependentOfQueue ==
    (RunEnded /\ CurStep.name \in TaskSteps /\ waitCalls = 1) =>
        /\ pc = "run_returned"
        /\ stepResult = COMPLETED <=> remoteReady
        /\ stepResult.type = "FAILED" <=> ~remoteReady
        /\ stepResult.type = "FAILED" => raised \in {TimeoutExc, WaitExc}

C20_Witness ==
    /\ cmd = "ir_enable"
    /\ pc = "run_returned"
    /\ CurStep.name = "DeployConsulClientStep"
    /\ stepResult = COMPLETED
    /\ nApps > 0
    /\ qlen = nApps
    /\ poller = "cancelling"

\* --------------------------------------------------------------------- C13
\* C13: when a lookup of is_skip failed, is_skip raised and the step counts
\* as failed: no is_skip result and no run() of that step is recorded, no
\* event of a later step follows, run_plan has raised and the command ends
\* with a non-zero exit code and without its final message.
C13_IsSkipRaiseIsFailure ==
    /\ \A i \in 1..N : trace[i].ev = "skip_raise" => i = N
    /\ raised \in CertificatesLookupErrors =>
          /\ N > 0
          /\ trace[N].ev = "skip_raise"
          /\ \A i \in 1..N :
                SameStep(trace[i], trace[N]) => trace[i].ev \notin {"is_skip", "run"}
          /\ pc \in {"plan_raised", "aborted"}
          /\ phase = trace[N].plan /\ idx = trace[N].idx
          /\ echoed = ""
          /\ pc = "aborted" => (exitCode = 1 /\ exitMessage = raised.msg)

C13_Witness ==
    /\ cmd = "certificates"
    /\ pc = "aborted"
    /\ raised = GetApplicationError
    /\ N = 1
    /\ trace[1].ev = "skip_raise"
    /\ idx < Len(CurPlan)
    /\ exitCode = 1

\* --------------------------------------------------------------------- C18
\* C18: when a run deployed tls-operator and failed, and the command is run
\* again, the re-run ends successfully only with the application deployed
\* exactly once and seen by a wait to have reached the desired status.
C18_RerunEndsInFaultFreeState ==
    (cmd = "certificates" /\ runNo > 1 /\ deployed > 0 /\ pc = "done"
        /\ exitCode = 0)
        => (deployed = 1 /\ confirmed)

\* --------------------------------------------------------------------- C14
\* C14: the preflight checks are evaluated in the order of the command's
\* list; a failing check is the last one evaluated and ends the command
\* with a non-zero exit code, before any controller connection is opened
\* and before any is_skip or run() of the command's plan; the command gets
\* past its preflight only when every check of the list passed.
C14_PreflightAbortsOnFirstFailure ==
    /\ Len(checkLog) <= Len(PreflightChecks(cmd))
    /\ \A k \in 1..Len(checkLog) :
          /\ checkLog[k].name = PreflightChecks(cmd)[k]
          /\ ~checkLog[k].ok =>
                /\ k = Len(checkLog)
                /\ pc = "preflight_failed"
                /\ exitCode = 1
                /\ ~controllerOpened
                /\ trace = <<>>
                /\ echoed = ""
    /\ (PreflightChecks(cmd) # <<>> /\ (controllerOpened \/ trace # <<>>)) =>
          /\ Len(checkLog) = Len(PreflightChecks(cmd))
          /\ \A k \in 1..Len(checkLog) : checkLog[k].ok

C14_Witness ==
    /\ cmd = "openrc"
    /\ pc = "preflight_failed"
    /\ checkLog = << [name |-> "DaemonGroupCheck", ok |-> FALSE] >>
    /\ exitCode = 1
    /\ ~controllerOpened

\* --------------------------------------------------------------------- C15
Dangling(active, deps) == active # NoneName /\ GetDeployment(deps, active) = 0

\* C15: when the active name of the registry is the name of no deployment
\* of the list, get_active() raises a ValueError that says the active
\* deployment was not found, and so does load_deployment on a file holding
\* such a registry; neither returns a deployment, the local one included.
C15_DanglingActiveRaises ==
    /\ (regOp = "get_active" /\ Dangling(regActive, regDeps)) =>
          /\ regOut.kind = "ValueError"
          /\ regOut.dep = NoDeployment
          /\ regActive # "" =>
                regOut = Raised("ValueError",
                    "Active deployment {active} not found in configuration.",
                    regActive)
    /\ (regOp = "load_deployment" /\ fileDoc.kind = "doc"
           /\ Dangling(fileDoc.active, fileDoc.deps)) =>
          /\ regOut.kind = "ValueError"
          /\ regOut.dep = NoDeployment

C15_Witness ==
    /\ regOp = "load_deployment"
    /\ fileDoc.kind = "doc"
    /\ fileDoc.active = "a"
    /\ Len(fileDoc.deps) = 1 /\ fileDoc.deps[1].name = "b"
    /\ regOut = Raised("ValueError",
                       "Active deployment {active} not found in configuration.",
                       "a")

\* --------------------------------------------------------------------- C16
\* C16: if the process dies at any point of write(), the registry file
\* holds the complete document it held when write() was called or the
\* complete new document, never an empty or cut-off one.
C16_WriteIsCrashAtomic ==
    regPc = "crashed" =>
        \/ fileDoc = oldDoc
        \/ fileDoc = Doc(regActive, regDeps)

\* --------------------------------------------------------------------- C21
NameErrors ==
    {"Deployment {name} already exists.",
     "Deployment {name} not found in deployments."}

\* A step of add_deployment.
AddDeploymentStep == regPc = "idle" /\ regOp' = "add_deployment"

\* C21: add_deployment with a name that is in the list raises ValueError and
\* changes neither the list, nor the active name, nor any file, and calls
\* no write(); it appends only a name that is not in the list.  A command
\* of the deployment group that got a ValueError about a name has printed
\* it, exited with code 1 without its final message, and left the registry
\* and its file as they were loaded.
C21_NameValidationLeavesRegistry ==
    /\ [][AddDeploymentStep =>
            \/ /\ regOut'.kind = "ValueError"
               /\ GetDeployment(regDeps, regOut'.arg) # 0
               /\ UNCHANGED <<regDeps, regActive, fileDoc, tmpDoc, regPc>>
            \/ /\ regPc' = "write"
               /\ Len(regDeps') = Len(regDeps) + 1
               /\ GetDeployment(regDeps, regDeps'[Len(regDeps')].name) = 0]_vars
    /\ []((regPc = "exited" /\ regOut.kind = "ValueError"
             /\ regOut.msg \in NameErrors) =>
            /\ exitCode = 1
            /\ exitMessage = regOut.msg
            /\ echoed = ""
            /\ fileDoc = oldDoc
            /\ regDeps = Load(fileDoc).deps
            /\ regActive = Load(fileDoc).active)

C21_Witness ==
    /\ regOp = "add_deployment"
    /\ regPc = "idle"
    /\ regOut = Raised("ValueError", "Deployment {name} already exists.", "a")
    /\ Len(regDeps) = 1
    /\ regDeps[1].name = "a"
    /\ fileDoc = Doc(regActive, regDeps)

\* --------------------------------------------------------------------- C22
\* C22: is_skip of the certificates step deploys, removes and reconfigures
\* nothing: the applications and machines of the model are the same after
\* the call as before it, whether it returns SKIPPED or COMPLETED or a
\* lookup raises.
C22_IsSkipIsReadOnly ==
    [][(pc = "is_skip" /\ CurStep.kind = "cert") =>
          UNCHANGED <<nApps, appExists, nMachines, deployed, confirmed>>]_vars

C22_Witness ==
    /\ cmd = "certificates"
    /\ runNo = 2
    /\ deployed = 1
    /\ N > 0
    /\ trace[N].ev = "skip_raise"
    /\ raised = GetApplicationError

\* --------------------------------------------------------------------- C23
\* Every run() ends, by a return or by an exception, and the command ends.
RunTerminates == (pc = "in_run") ~> (pc # "in_run")
CommandTerminates == <>(pc \in Terminal)

\* C23: under fair scheduling, with every wait ending at its timeout at the
\* latest, each run() that was invoked eventually returns a Result that is
\* COMPLETED or FAILED to run_plan, and the command eventually finishes or
\* aborts.
C23_EveryRunReturnsResult ==
    /\ (pc = "in_run") ~>
          (pc = "run_returned" /\ stepResult.type \in {"COMPLETED", "FAILED"})
    /\ CommandTerminates

\* --------------------------------------------------------------------- C24
Called(name) == consulOp[1] = name /\ consulOut.kind = "returned"

\* C24: consul_servers_to_enable enables the management server iff the
\* management network has a space, the storage server iff the storage
\* network has a space other than the management space, and the tenant
\* server iff the data network has a space that is neither the management
\* nor the storage space; the networks of any two enabled servers are
\* mapped to different spaces.
C24_ServersOnDistinctSpaces ==
    Called("consul_servers_to_enable") =>
        LET enable == consulOut.val
        IN /\ enable["management"] <=> spaces["management"] # NoSpace
           /\ enable["storage"] <=>
                 /\ spaces["storage"] # NoSpace
                 /\ spaces["storage"] # spaces["management"]
           /\ enable["tenant"] <=>
                 /\ spaces["data"] # NoSpace
                 /\ spaces["data"] # spaces["management"]
                 /\ spaces["data"] # spaces["storage"]
           /\ \A a, b \in ConsulNets :
                 (a # b /\ enable[a] /\ enable[b]) =>
                     spaces[EndpointNetwork(a)] # spaces[EndpointNetwork(b)]

C24_Witness ==
    /\ Called("consul_servers_to_enable")
    /\ \A n \in ConsulNets : consulOut.val[n]
    /\ spaces["data"] = "alpha"

\* --------------------------------------------------------------------- C25
InList(x, list) == \E i \in 1..Len(list) : list[i] = x

\* C25: in the tfvars _get_tfvars returns, for each network X,
\* enable-consul-X is True iff consul-X is a key of consul-config-map iff
\* consul-X is a key of consul-endpoint-bindings-map iff consul-client-X is
\* in the list of applications the step waits on; and in the tfvars of
\* set_tfvars_on_enable, enable-consul-X is True iff consul-X is a key of
\* its consul-config-map iff consul-X is in set_application_names.
C25_TfvarsAndApplicationsAgree ==
    /\ Called("_get_tfvars") =>
          \A n \in ConsulNets :
             LET on == consulOut.val.enable[EnableKey(n)] = TRUE
             IN /\ on <=> ConsulName(n) \in DOMAIN consulOut.val.configMap
                /\ on <=> ConsulName(n) \in DOMAIN consulOut.val.bindingsMap
                /\ on <=> InList(ConsulClientName(n),
                                 SetConsulClientApplicationNames(spaces))
    /\ Called("set_tfvars_on_enable") =>
          \A n \in ConsulNets : \A topology \in {"single", "multi"} :
             LET on == consulOut.val.enable[EnableKey(n)] = TRUE
             IN /\ on <=> ConsulName(n) \in DOMAIN consulOut.val.configMap
                /\ on <=> InList(ConsulName(n), SetApplicationNames(spaces, topology))
    /\ Called("set_consul_client_application_names") =>
          \A n \in ConsulNets :
             InList(ConsulClientName(n), consulOut.val) <=>
                 SetTfvarsOnEnable(spaces, manifest).enable[EnableKey(n)]

C25_Witness ==
    /\ Called("_get_tfvars")
    /\ DOMAIN consulOut.val.configMap = {"consul-management", "consul-tenant"}
    /\ consulOut.val.enable["enable-consul-storage"] = FALSE
    /\ spaces["storage"] # NoSpace
    /\ SetConsulClientApplicationNames(spaces) =
          <<"consul-client-management", "consul-client-tenant">>

\* --------------------------------------------------------------------- C26
\* The per-network constants declared for the servers.
DeclaredServerPort(n) ==
    CASE n = "management" -> CONSUL_MANAGEMENT_SERF_LAN_PORT
      [] n = "tenant" -> CONSUL_TENANT_SERF_LAN_PORT
      [] n = "storage" -> CONSUL_STORAGE_SERF_LAN_PORT

NoOverrides == manifest \in {NoFeatureManifest, NoCharmManifest}

PortsOf(configMap, key) == [c \in DOMAIN configMap |-> configMap[c][key]]
Injective(f) == \A a, b \in DOMAIN f : a # b => f[a] # f[b]

\* C26: with no override in the manifest, the servers that
\* set_tfvars_on_enable configures get the serflan-node-port declared for
\* their network (30301, 30311, 30321), no two of them the same port, and
\* the clients that _get_tfvars configures get the serf-lan-port declared
\* for their network (8301, 8311, 8321), no two of them the same port.
C26_DefaultPortsDistinct ==
    NoOverrides =>
        /\ Called("set_tfvars_on_enable") =>
              LET ports == PortsOf(consulOut.val.configMap, "serflan-node-port")
              IN /\ Injective(ports)
                 /\ \A c \in DOMAIN ports : ports[c] = DeclaredServerPort(NetOf(c))
        /\ Called("_get_tfvars") =>
              LET ports == PortsOf(consulOut.val.configMap, "serf-lan-port")
              IN /\ Injective(ports)
                 /\ \A c \in DOMAIN ports : ports[c] = ClientDefaultPort(NetOf(c))

\* --------------------------------------------------------------------- C27
\* The manifest's entry for a charm, if it has one.
HasEntry(charm) == manifest.feature /\ manifest.charm = charm

\* config-map entry of the network first, then the config section, then
\* the built-in default.
Precedence(map, config, default, k) ==
    IF k \in DOMAIN map THEN map[k]
    ELSE IF k \in DOMAIN config THEN config[k]
    ELSE default[k]

FollowsPrecedence(out, charm, n, default) ==
    LET map == IF HasEntry(charm) THEN manifest.configMap[ConsulName(n)] ELSE EmptyDict
        config == IF HasEntry(charm) THEN manifest.config ELSE EmptyDict
    IN /\ DOMAIN out = DOMAIN map \cup DOMAIN config \cup DOMAIN default
       /\ \A k \in DOMAIN out : out[k] = Precedence(map, config, default, k)

\* C27: get_config_from_manifest gives every key the value of the charm's
\* config-map entry for the network if it has the key, otherwise the value
\* of the charm's config section (nothing when the manifest has no entry for
\* the charm); in the consul-config-map of set_tfvars_on_enable and of
\* _get_tfvars every key has the manifest's value if the manifest gives
\* one, otherwise the built-in default.
C27_ConfigMapOverConfigOverDefault ==
    /\ Called("get_config_from_manifest") =>
          FollowsPrecedence(consulOut.val, consulOp[2], consulOp[3], EmptyDict)
    /\ Called("set_tfvars_on_enable") =>
          \A c \in DOMAIN consulOut.val.configMap :
             FollowsPrecedence(consulOut.val.configMap[c], "consul-k8s", NetOf(c),
                               ServerDefaults(NetOf(c)))
    /\ Called("_get_tfvars") =>
          \A c \in DOMAIN consulOut.val.configMap :
             FollowsPrecedence(consulOut.val.configMap[c], "consul-client", NetOf(c),
                               ClientDefaults(NetOf(c)))

C27_Witness ==
    /\ Called("_get_tfvars")
    /\ HasEntry("consul-client")
    /\ DOMAIN manifest.config = ConfigKeys
    /\ DOMAIN manifest.configMap["consul-tenant"] = {"serflan-node-port"}
    /\ DOMAIN manifest.configMap["consul-management"] = {}
    /\ "consul-tenant" \in DOMAIN consulOut.val.configMap
    /\ consulOut.val.configMap["consul-tenant"]["serf-lan-port"] = 9001
    /\ consulOut.val.configMap["consul-tenant"]["serflan-node-port"] = 9002
    /\ consulOut.val.configMap["consul-management"]["serflan-node-port"] = 9001

\* --------------------------------------------------------------------- C28
InRemoveConsulClient ==
    /\ cmd = "ir_disable"
    /\ phase <= Len(Plans)
    /\ idx <= Len(CurPlan)
    /\ CurStep.name = "RemoveConsulClientStep"

\* C28: the stored configuration of the consul client is replaced by the
\* disable tfvars only in a run() of RemoveConsulClientStep whose destroy()
\* returned and whose wait returned before its timeout, and that run()
\* returns COMPLETED; while the step runs, and after a run() whose destroy
\* failed or whose wait timed out, the stored configuration is what it was
\* and the step has returned FAILED.
C28_ConfigDisabledOnlyAfterRemoval ==
    /\ storedConfig # StoredOnEnable =>
          /\ storedConfig = SetTfvarsOnDisable
          /\ \E i \in 1..N : /\ trace[i].ev = "ret"
                             /\ trace[i].name = "RemoveConsulClientStep"
                             /\ trace[i].res = COMPLETED
    /\ (InRemoveConsulClient /\ pc \in {"is_skip", "run", "in_run", "crashed"}) =>
          storedConfig = StoredOnEnable
    /\ (InRemoveConsulClient /\ pc = "run_returned") =>
          /\ stepResult = COMPLETED <=> storedConfig = SetTfvarsOnDisable
          /\ stepResult = COMPLETED =>
                /\ applyCalls = 1 /\ waitCalls = 1
                /\ raised = NoExc
                /\ remoteReady
          /\ raised.exc \in {"TerraformException", "TimeoutException"} =>
                /\ stepResult = FailedResult(raised)
                /\ storedConfig = StoredOnEnable

C28_Witness ==
    /\ InRemoveConsulClient
    /\ pc = "run_returned"
    /\ raised = TimeoutExc
    /\ applyCalls = 1
    /\ stepResult.type = "FAILED"
    /\ storedConfig = StoredOnEnable

\* --------------------------------------------------------------------- C29
\* run() of the TerraformInitStep of helper h returned COMPLETED at or
\* before event number last, in a plan up to number lastPlan.
InitCompleted(h, last, lastPlan) ==
    \E j \in 1..last :
        /\ trace[j].ev = "ret"
        /\ trace[j].name = "TerraformInitStep"
        /\ trace[j].arg = h
        /\ trace[j].res = COMPLETED
        /\ trace[j].plan <= lastPlan

FeatureCommands ==
    {"ir_enable", "ir_disable", "obs_enable", "obs_disable", "obs_update_proxy"}

CompletedBefore(name, i) ==
    \E j \in 1..(i - 1) :
        /\ trace[j].ev = "ret"
        /\ trace[j].name = name
        /\ trace[j].res = COMPLETED

\* Before event number i the step called name has ended the way run_plan
\* goes on from: run() returned COMPLETED, or is_skip returned SKIPPED.
PassedBefore(name, i) ==
    \/ CompletedBefore(name, i)
    \/ \E j \in 1..(i - 1) :
          /\ trace[j].ev = "is_skip"
          /\ trace[j].name = name
          /\ trace[j].res = SKIPPED

\* The step of event e failed: run() returned FAILED, or run() or is_skip
\* raised.
IsFailure(e) == IsFailedReturn(e) \/ e.ev \in {"raise", "skip_raise"}

\* C30: on observability enable, DeployObservabilityStackStep returns
\* COMPLETED only once the state waited for was reached, and it has returned
\* COMPLETED before anything of grafana_agent_k8s_plan or grafana_agent_plan
\* happens; on disable, run() of RemoveObservabilityStackStep is invoked only
\* after RemoveGrafanaAgentStep returned COMPLETED and
\* DisableOpenStackApplicationStep returned COMPLETED or was skipped by its
\* own is_skip; in both, after a failed step no step of a later plan does
\* anything, the command does not go on to a later plan, and the final
\* message is not printed.
C30_ObservabilityDependencyOrder ==
    /\ cmd = "obs_enable" =>
          /\ (/\ pc = "run_returned"
              /\ CurStep.name = "DeployObservabilityStackStep"
              /\ stepResult = COMPLETED) => (remoteReady /\ waitCalls = 1)
          /\ \A i \in 1..N :
                ObsEnableRank(trace[i]) >= 3 =>
                   CompletedBefore("DeployObservabilityStackStep", i)
    /\ cmd = "obs_disable" =>
          \A i \in 1..N :
             (trace[i].name = "RemoveObservabilityStackStep" /\ trace[i].ev = "run") =>
                /\ CompletedBefore("RemoveGrafanaAgentStep", i)
                /\ PassedBefore("DisableOpenStackApplicationStep", i)
    /\ cmd \in {"obs_enable", "obs_disable"} =>
          \A i \in 1..N :
             IsFailure(trace[i]) =>
                /\ i = N
                /\ phase = trace[i].plan
                /\ echoed = ""
                /\ pc \notin {"done", "call_run_plan"}

C30_Witness ==
    /\ cmd = "obs_disable"
    /\ pc = "in_run"
    /\ CurStep.name = "RemoveObservabilityStackStep"
    /\ CompletedBefore("RemoveGrafanaAgentStep", N)
    /\ CompletedBefore("DisableOpenStackApplicationStep", N)

\* --------------------------------------------------------------------- C31
IsCertificatesStep(e) == e.name = "DeployCertificatesProviderApplicationStep"

\* A deploy call for tls-operator is made in this step of the model.
DeployIsCalled == deployed' # deployed

\* C31: is_skip of the certificates step returns SKIPPED exactly when
\* tls-operator is in the model and COMPLETED exactly when it is not; a deploy
\* call is made only by run() of that step, only right after its is_skip
\* returned COMPLETED, only while the application is not in the model, and
\* one at a time; so there is at most one deploy call, within one run of the
\* plan and over its re-runs, and none when the application existed from the
\* start.
C31_DeployedAtMostOnceAndNeverIfPresent ==
    /\ [](cmd = "certificates" =>
            /\ (N > 0 /\ trace[N].ev = "is_skip" /\ IsCertificatesStep(trace[N])) =>
                  /\ trace[N].res = SKIPPED <=> AppInModel
                  /\ trace[N].res = COMPLETED <=> ~AppInModel
            /\ Cardinality({i \in 1..N : trace[i].ev = "run"
                                          /\ IsCertificatesStep(trace[i])}) <= 1
            /\ deployed <= 1
            /\ appExists => deployed = 0)
    /\ [][DeployIsCalled =>
            /\ cmd = "certificates"
            /\ deployed' = deployed + 1
            /\ ~AppInModel
            /\ pc = "in_run"
            /\ IsCertificatesStep(CurStep)
            /\ N = 2
            /\ trace[1].ev = "is_skip" /\ trace[1].res = COMPLETED
            /\ trace[2].ev = "run" /\ SameStep(trace[1], trace[2])]_vars

C31_Witness ==
    /\ cmd = "certificates"
    /\ ~appExists
    /\ deployed = 1
    /\ runNo = 2
    /\ pc = "done"
    /\ trace[1].ev = "is_skip" /\ trace[1].res = SKIPPED
    /\ IsCertificatesStep(trace[1])

\* --------------------------------------------------------------------- C32
\* run() of the certificates step is in progress or has just returned.
InCertificatesRun ==
    /\ cmd = "certificates"
    /\ IsCertificatesStep(CurStep)
    /\ pc \in {"in_run", "run_returned"}

\* C32: with no machine in the model, run() of the certificates step never
\* calls deploy or a wait and returns FAILED; with machines, the wait is
\* called only after one deploy call, run() returns only after one deploy
\* call and one wait call, and every deploy call asks for one unit placed on
\* the first machine of the model and on no other.
C32_DeployOnceOnFirstMachine ==
    /\ (cmd = "certificates" /\ nMachines = 0) =>
          /\ deployed = 0
          /\ deployCall = NoDeployCall
          /\ InCertificatesRun => (applyCalls = 0 /\ waitCalls = 0)
          /\ (InCertificatesRun /\ pc = "run_returned") => stepResult.type = "FAILED"
    /\ (InCertificatesRun /\ nMachines > 0) =>
          /\ applyCalls <= 1
          /\ waitCalls <= applyCalls
          /\ stepPc = "wait" => (applyCalls = 1 /\ waitCalls = 1)
          /\ pc = "run_returned" => (applyCalls = 1 /\ waitCalls = 1)
          /\ applyCalls = 1 => deployed = 1
    /\ deployed > 0 =>
          /\ deployCall.units = 1
          /\ deployCall.to = <<MachineIds(nMachines)[1]>>
    /\ deployed = 0 => deployCall = NoDeployCall

C32_Witness ==
    /\ InCertificatesRun
    /\ nMachines = MaxMachines
    /\ pc = "run_returned"
    /\ stepResult = COMPLETED
    /\ deployCall = [units |-> 1, to |-> <<0>>]

\* --------------------------------------------------------------------- C33
\* C33: whenever is_skip or run() of the certificates step has returned or
\* raised, every model connection it got from get_model has been
\* disconnected.  (The lookups of a method are made in one step of the
\* model, so a connection open in a state is one the method left open.)
C33_NoConnectionLeak == cmd = "certificates" => openConns = 0

\* is_skip alone leaves no connection open: found, not found, lookup error.
C33_IsSkipLeavesNoConnection ==
    (cmd = "certificates"
        /\ runNo = 1
        /\ \A i \in 1..N : ~(trace[i].ev = "run" /\ IsCertificatesStep(trace[i])))
        => openConns = 0

\* --------------------------------------------------------------------- C34
\* The names of the list are pairwise distinct.
Distinct(deps) ==
    \A i, j \in 1..Len(deps) : i # j => deps[i].name # deps[j].name

ApiOps == {"add_deployment", "update_deployment", "switch"}

\* The last call of add_deployment, update_deployment or switch has ended,
\* by a return or by an exception.
CallEnded == regOp \in ApiOps /\ regPc = "idle"

\* During and after every call, names that were distinct are still distinct,
\* and the length of the list is the one before the call, or one more in an
\* add_deployment that found the name free.
NamesStayUnique ==
    regOp \in ApiOps =>
       /\ Distinct(regCall.mem.deps) => Distinct(regDeps)
       /\ Len(regDeps) # Len(regCall.mem.deps) =>
             /\ regOp = "add_deployment"
             /\ Len(regDeps) = Len(regCall.mem.deps) + 1
             /\ GetDeployment(regCall.mem.deps, regCall.arg.name) = 0

\* C34: when a call of add_deployment, update_deployment or switch has
\* ended, names that were pairwise distinct before the call still are, and
\* the list has the length it had before the call unless the call was an
\* add_deployment that returned, which made it one longer.
C34_UniqueNamesLengthByAdd ==
    CallEnded =>
       /\ Distinct(regCall.mem.deps) => Distinct(regDeps)
       /\ Len(regDeps) # Len(regCall.mem.deps) =>
             /\ regOp = "add_deployment"
             /\ regOut.kind = "returned"
             /\ Len(regDeps) = Len(regCall.mem.deps) + 1

\* --------------------------------------------------------------------- C35
\* active is None or the name of a deployment of the list.
NotDangling(a, deps) == a = NoneName \/ GetDeployment(deps, a) # 0

\* An add_deployment has returned.
AddReturned == CallEnded /\ regOp = "add_deployment" /\ regOut.kind = "returned"

\* During and after every call, an active name that was not dangling is not
\* dangling; an add_deployment that found the name free has made it active.
ActiveNeverDangling ==
    regOp \in ApiOps =>
       /\ NotDangling(regCall.mem.active, regCall.mem.deps)
             => NotDangling(regActive, regDeps)
       /\ (regOp = "add_deployment" /\ regDeps # regCall.mem.deps) =>
             /\ regActive = regCall.arg.name
             /\ regDeps[GetDeployment(regDeps, regActive)] = regCall.arg

\* get_active returns the deployment added last whenever its name is not
\* the empty string.
GetActiveReturnsAddedUnlessEmptyName ==
    (AddReturned /\ regCall.arg.name # "")
        => GetActive(regActive, regDeps) = Returned(regCall.arg)

\* C35: an active name that is None or in the list before a call of
\* add_deployment, update_deployment or switch is None or in the list when
\* the call has ended; and when add_deployment has returned, the deployment
\* it was given is the active one and get_active() returns it.
C35_ActiveNeverDanglingAddActivates ==
    /\ CallEnded =>
          (NotDangling(regCall.mem.active, regCall.mem.deps)
              => NotDangling(regActive, regDeps))
    /\ AddReturned =>
          /\ regActive = regCall.arg.name
          /\ GetActive(regActive, regDeps) = Returned(regCall.arg)

\* --------------------------------------------------------------------- C36
\* A step that calls switch(name): directly, or from the switch command
\* once it has loaded the registry.
SwitchStep ==
    /\ regPc = "idle"
    /\ \/ regOp' = "switch"
       \/ regOp' = "cli_switch" /\ regCall' # NoCall

\* write() is not called and no file changes (deployment_path may have
\* created the missing file of the command).
NothingWritten ==
    /\ regPc' \notin {"write", "copy_open", "copy_data", "copy_rest", "chmod"}
    /\ fileDoc' = IF regOp' \in CliOps THEN DeploymentPath(fileDoc) ELSE fileDoc
    /\ tmpDoc' = tmpDoc

\* C36: switch(name) with the active name returns and changes and writes
\* nothing; with another name that is not in the list it raises ValueError,
\* leaves active and the list as they were and writes nothing; with another
\* name that is in the list it makes that name active, leaves the list and
\* calls write().  So active changes only to a name of the list.  A
\* switch(name) that follows a switch(name) of the same name changes
\* nothing, writes nothing, and ends as the first did (returns, or raises
\* the same ValueError).  A switch command that ended with exit code 0 left
\* a file whose active name is the name given.
C36_SwitchOnlyToPresentIdempotent ==
    /\ [][SwitchStep =>
            LET mem == regCall'.mem
                n == regCall'.arg.name
            IN IF mem.active = n
                 THEN /\ regOut' = Returned(NoDeployment)
                      /\ regActive' = mem.active /\ regDeps' = mem.deps
                      /\ NothingWritten
               ELSE IF GetDeployment(mem.deps, n) = 0
                 THEN /\ regOut'.kind = "ValueError"
                      /\ regActive' = mem.active /\ regDeps' = mem.deps
                      /\ NothingWritten
               ELSE /\ regActive' = n
                    /\ regDeps' = mem.deps
                    /\ regPc' = "write"]_vars
    /\ [][(SwitchStep /\ regOp = "switch" /\ regOp' = "switch"
             /\ regCall'.arg = regCall.arg) =>
            /\ UNCHANGED <<regDeps, regActive, regPc>>
            /\ NothingWritten
            /\ IF regOut.kind = "ValueError" THEN regOut' = regOut
               ELSE regOut' = Returned(NoDeployment)]_vars
    /\ []((regOp = "cli_switch" /\ regPc = "exited" /\ exitCode = 0) =>
            /\ fileDoc.kind = "doc"
            /\ fileDoc.active = regCall.arg.name
            /\ fileDoc = Doc(regActive, regDeps))

C36_Witness ==
    /\ regOp = "switch"
    /\ regPc = "idle"
    /\ regOut = Returned(NoDeployment)
    /\ regCall = Call("b", regDeps, Deployment("b", 0))
    /\ regActive = "b"
    /\ Len(regDeps) = 2
    /\ fileDoc = Doc("b", regDeps)
    /\ oldDoc.active = "a"

\* --------------------------------------------------------------------- C37
\* A step that calls update_deployment(d).
UpdateStep == regPc = "idle" /\ regOp' = "update_deployment"

\* deps is before with entry number i replaced by d, and nothing else.
ReplacedAt(deps, before, i, d) ==
    /\ Len(deps) = Len(before)
    /\ deps[i] = d
    /\ \A j \in 1..Len(before) : j # i => deps[j] = before[j]

\* C37: update_deployment(d) on a list with no entry of the name of d raises
\* ValueError, changes neither the list nor active and writes nothing; on a
\* list with such an entry it puts d in the place of the first one (the only
\* one when the names are distinct), leaves every other entry, the order,
\* the length and active as they were, and calls write(); and this is what
\* the registry still holds while write() runs and when the call has ended.
C37_UpdateReplacesOneEntry ==
    /\ [][UpdateStep =>
            LET d == regCall'.arg
                i == GetDeployment(regDeps, d.name)
            IN IF i = 0
                 THEN /\ regOut'.kind = "ValueError"
                      /\ UNCHANGED <<regDeps, regActive>>
                      /\ NothingWritten
                 ELSE /\ regDeps[i].name = d.name
                      /\ ReplacedAt(regDeps', regDeps, i, d)
                      /\ Distinct(regDeps) =>
                            \A j \in 1..Len(regDeps) :
                               regDeps[j].name = d.name => j = i
                      /\ regActive' = regActive
                      /\ regPc' = "write"]_vars
    /\ [](regOp = "update_deployment" =>
            LET before == regCall.mem
                i == GetDeployment(before.deps, regCall.arg.name)
            IN /\ regActive = before.active
               /\ IF i = 0 THEN regDeps = before.deps
                  ELSE ReplacedAt(regDeps, before.deps, i, regCall.arg))

C37_Witness ==
    /\ regOp = "update_deployment"
    /\ regPc = "idle"
    /\ regOut = Returned(NoDeployment)
    /\ regCall.mem = Doc("b", <<Deployment("a", 0), Deployment("b", 0)>>)
    /\ regCall.arg = Deployment("a", 1)
    /\ regDeps = <<Deployment("a", 1), Deployment("b", 0)>>
    /\ regActive = "b"
    /\ fileDoc = Doc(regActive, regDeps)

\* --------------------------------------------------------------------- C38
\* The registry in memory is what loading the registry file gives.
InSync == Load(fileDoc) = Doc(regActive, regDeps)

\* A call that changed the registry in memory and returned has written it:
\* the file holds the registry in memory.  A call that raised ValueError
\* changed nothing in memory.
ReturnedCallIsPersisted ==
    CallEnded =>
       /\ (regOut.kind = "returned" /\ regCall.mem # Doc(regActive, regDeps))
             => fileDoc = Doc(regActive, regDeps)
       /\ regOut.kind = "ValueError" => regCall.mem = Doc(regActive, regDeps)

\* C38: when a call of add_deployment, update_deployment or switch has
\* ended, by a return or by an exception, that of a failing write()
\* included, deployments and active in memory are what the registry file
\* holds.
C38_MemoryAndFileNeverDiverge == CallEnded => InSync

====
